---------------------------- MODULE Spec2Model ----------------------------
(***************************************************************************)
(* Model of the school administration application (Streamlit, JSON files). *)
(*                                                                         *)
(* The persisted state is one JSON document per collection under data/.    *)
(* Three role modules work on these documents:                             *)
(*   management/dashboard.py  admin sessions; every collection is loaded   *)
(*                            once per session into st.session_state and   *)
(*                            every write saves the session's copy;        *)
(*   teachers/dashboard.py    teacher sessions; every handler loads the    *)
(*                            file, changes it and saves it;               *)
(*   parents/dashboard.py     parent sessions; same load-change-save.      *)
(* One action is one handler run (Streamlit runs a script to completion    *)
(* per user interaction); sessions interleave at that granularity.         *)
(*                                                                         *)
(* A Python dict is a sequence of entries [k, v] in insertion order, which *)
(* json.dump / json.load preserve.  An absent key or a None value is the   *)
(* empty tuple None, a present value v is Some(v) where the two have to be *)
(* told apart.  uuid4 values are fresh naturals, counted per kind of record  *)
(* in nextId (ids of different kinds are never compared by the code).      *)
(*                                                                         *)
(* teacher_dashboard.py is a teacher app of its own on the same teacher    *)
(* file (login, registration while the file is empty, profile update).     *)
(*                                                                         *)
(* teachers/dashboard.py load_data has a mutable default argument that is  *)
(* returned when the file is missing, empty or unparseable: default_value  *)
(* is that dict.  The attendance save is modelled with it; the other       *)
(* handlers of that module are modelled for files that hold a document     *)
(* (the management module creates them at session start) and carry that    *)
(* as a guard.  A failed write of save_data is an action of its own.       *)
(*                                                                         *)
(* The actions write the value of a collection to its file and read it     *)
(* back unchanged; json.dump and json.load themselves are modelled on      *)
(* Python values and JSON tokens in the codec section at the end.          *)
(*                                                                         *)
(* Fee amounts are Python floats.  They are modelled as IEEE 754 binary64  *)
(* values <<sign, exponent, significand>> with round-to-nearest-even       *)
(* addition, subtraction and comparison; an amount typed with two decimals *)
(* is the double nearest to it.  The timetable is a list of entries per    *)
(* teacher id, edited by both teacher apps.                                *)
(***************************************************************************)
EXTENDS Integers, Sequences, FiniteSets, TLC

(***************************************************************************)
(* Bounds of the model                                                     *)
(***************************************************************************)
MaxStudentId == 8     \* uuid4 values available for students (seeding takes six)
MaxTeacherId == 3     \* uuid4 values available for teachers
MaxCsvRows == 2       \* rows of an imported CSV file
MaxLeaveId == 2       \* uuid4 values available for leave applications
MaxAssignId == 1      \* uuid4 values available for assignments
MaxSubId == 3         \* uuid4 values available for submissions
MaxGradingAssignId == 2  \* uuid4 values available for assignments where grading is checked

AdminSessions == {"a1", "a2"}
TeacherSessions == {"t1", "t2"}
ParentSessions == {"p1", "p2"}
\* sessions of the stand-alone teacher application teacher_dashboard.py
StandaloneSessions == {"s1"}

(***************************************************************************)
(* Option values and dicts                                                 *)
(***************************************************************************)
None == <<>>
Some(v) == <<v>>
IsSet(o) == o # <<>>
Val(o) == o[1]

EmptyDict == <<>>
Keys(d) == {d[i].k : i \in 1..Len(d)}
Has(d, key) == \E i \in 1..Len(d) : d[i].k = key
IndexOf(d, key) == CHOOSE i \in 1..Len(d) : d[i].k = key /\ \A j \in 1..(i-1) : d[j].k # key
Get(d, key) == d[IndexOf(d, key)].v
\* d[key] = v : replaces in place, or appends a new entry
Put(d, key, v) ==
    IF Has(d, key) THEN [d EXCEPT ![IndexOf(d, key)].v = v]
    ELSE Append(d, [k |-> key, v |-> v])
RemoveAt(s, i) == [j \in 1..(Len(s)-1) |-> IF j < i THEN s[j] ELSE s[j+1]]
\* del d[key]
Del(d, key) == RemoveAt(d, IndexOf(d, key))
\* d.get(key, default)
GetOr(d, key, default) == IF Has(d, key) THEN Get(d, key) ELSE default

\* A record of a collection is itself a dict with string keys: a TLA+ record.
\* record.get(field): None when the key is absent
RecGet(rec, field) == IF field \in DOMAIN rec THEN Some(rec[field]) ELSE None
\* record[field] = v: sets the key, adding it when it is absent
RecPut(rec, field, v) == [f \in DOMAIN rec \cup {field} |-> IF f = field THEN v ELSE rec[f]]

RECURSIVE Filter(_, _)
\* [x for x in s if x.id # id]
Filter(s, id) ==
    IF s = <<>> THEN <<>>
    ELSE IF Head(s).id # id THEN <<Head(s)>> \o Filter(Tail(s), id)
    ELSE Filter(Tail(s), id)

(***************************************************************************)
(* Classes, passwords, admission numbers                                   *)
(***************************************************************************)
\* get_full_class_list(): the first entries of the 43-entry list
FullClassList == <<"Nursery", "LKG", "UKG", "Grade 1A">>
GRADE_LEVELS == <<"Nursery", "LKG", "UKG", "Grade 1">>
\* class_name.split(' ')[0] if ' ' in class_name else class_name
FirstWord(c) == IF c \in {"Nursery", "LKG", "UKG"} THEN c ELSE "Grade"
InGradeLevels(w) == \E i \in 1..Len(GRADE_LEVELS) : GRADE_LEVELS[i] = w
\* GRADE_LEVELS.index(w), defined when InGradeLevels(w); raises ValueError otherwise
GradeIndex(w) == (CHOOSE i \in 1..Len(GRADE_LEVELS) : GRADE_LEVELS[i] = w) - 1
\* f"ADM{n:04d}"
AdmNo(n) == <<"ADM", n>>
\* hashlib.sha256(password.encode()).hexdigest(): deterministic, injective on
\* the passwords of the model, never equal to the password itself
hash_password(p) == <<"sha256", p>>

Passwords == {"pw1", "pw2"}
AdmInputs == {AdmNo(1001), AdmNo(9001)}
\* a text input left empty
EmptyInput == <<>>
NameInputs == {<<"Asha", 0, "">>}
ParentNameInputs == {"Rao"}

VARIABLES
    teachersFile,     \* data/teacher_data.json: dict id -> teacher
    studentsFile,     \* data/student_data.json: dict class -> list of students
    leaveFile,        \* data/leave_data.json: dict owner -> list of leaves
    attendanceFile,   \* data/attendance_data.json: teacher -> date -> class -> student -> status
    assignmentsFile,  \* data/assignments_data.json: dict teacher -> list of assignments
    feeFile,          \* data/fee_data.json: dict student id -> fee record
    timetableFile,    \* data/timetable_data.json: dict teacher -> list of entries
    exists,           \* the collection files that exist and hold a JSON document
    admin,            \* st.session_state of each admin session
    teacher,          \* st.session_state of each teacher session (either teacher application)
    parent,           \* st.session_state of each parent session
    nextId,           \* next uuid4 of each kind of record
    default_value,    \* teachers/dashboard.py load_data: the dict bound to its default_value parameter
    codec,            \* a value given to save_data, the file text written, the value load_data returns
    authenticated,    \* history: sessions that passed an authenticate_* call since their last logout
    lastOp            \* the st.error shown by the last handler run, and a note on what it did

vars == <<teachersFile, studentsFile, leaveFile, attendanceFile, assignmentsFile,
          feeFile, timetableFile, exists, admin, teacher, parent, nextId, default_value, codec, authenticated, lastOp>>

files == <<teachersFile, studentsFile, leaveFile, attendanceFile, assignmentsFile, exists>>

\* an empty st.session_state
AdminFresh == [teachers |-> None, students |-> None, leave_data |-> None, fee_data |-> None,
               admin_logged_in |-> FALSE, admin_id |-> None]
TeacherFresh == [teacher_id |-> None, teacher_data |-> None, logged_in |-> FALSE]
ParentFresh == [parent_logged_in |-> FALSE, logged_in_student |-> None]

\* nothing saved or loaded through the codec harness
CodecIdle == [value |-> None, text |-> None, loaded |-> None]

\* no data files, no session, nothing bound to the default dict
InitStore ==
    /\ teachersFile = EmptyDict
    /\ studentsFile = EmptyDict
    /\ leaveFile = EmptyDict
    /\ attendanceFile = EmptyDict
    /\ assignmentsFile = EmptyDict
    /\ feeFile = EmptyDict
    /\ timetableFile = EmptyDict
    /\ exists = {}
    /\ admin = [a \in AdminSessions |-> AdminFresh]
    /\ teacher = [t \in TeacherSessions \cup StandaloneSessions |-> TeacherFresh]
    /\ parent = [p \in ParentSessions |-> ParentFresh]
    /\ nextId = [student |-> 1, teacher |-> 1, leave |-> 1, assign |-> 1, sub |-> 1]
    /\ default_value = EmptyDict
    /\ authenticated = {}
    /\ lastOp = [msg |-> "", note |-> ""]

Init == InitStore /\ codec = CodecIdle

\* the st.error message the run showed ("" when it showed none) and a note
\* on what the run did
Ran(message, remark) ==
    lastOp' = [msg |-> message, note |-> remark]

(***************************************************************************)
(* Students collection: helpers                                            *)
(***************************************************************************)
\* all student records of a students dict, partition by partition
RECURSIVE AllStudents(_)
AllStudents(d) == IF d = <<>> THEN <<>> ELSE Head(d).v \o AllStudents(Tail(d))

\* any(s.get('admission_no') == adm for s in cls_students) over all partitions
AdmissionExists(d, adm) ==
    \E i \in 1..Len(d) : \E j \in 1..Len(d[i].v) : d[i].v[j].admission_no = adm

(***************************************************************************)
(* management/dashboard.py: module-level session initialisation            *)
(***************************************************************************)
\* num_students = 2 if class_name in ["Nursery", "LKG", "UKG"] else 3
NumSeedStudents(c) == IF c \in {"Nursery", "LKG", "UKG"} THEN 2 ELSE 3

\* GRADE_LEVELS.index(...) raises ValueError for a class whose first word is no grade level
SeedRaises(c) == ~InGradeLevels(FirstWord(c))

SeedStudent(c, i, id) ==
    [id |-> id,
     admission_no |-> AdmNo((GradeIndex(FirstWord(c)) + 1) * 1000 + i),
     name |-> <<"Student", i, c>>,
     class |-> c,
     parent_name |-> None,
     parent_password |-> None]

RECURSIVE SeedStudents(_, _, _, _, _)
\* the seeding loop from class number k on: sample is the dict built so far,
\* cache what st.session_state.students refers to, saved the file content
SeedStudents(k, sample, cache, saved, id) ==
    IF k > Len(FullClassList)
    THEN [cache |-> cache, file |-> saved, raised |-> FALSE, next |-> id]
    ELSE LET c == FullClassList[k]
             n == NumSeedStudents(c)
             withEmpty == Put(sample, c, <<>>)
             full == Put(sample, c, [i \in 1..n |-> SeedStudent(c, i, id + i - 1)])
         IN IF SeedRaises(c)
            \* sample_students[class_name] = [] is done; after the first class
            \* st.session_state.students is the sample dict itself
            THEN [cache |-> IF k = 1 THEN cache ELSE withEmpty,
                  file |-> saved, raised |-> TRUE, next |-> id]
            ELSE SeedStudents(k + 1, full, full, full, id + n)

\* One run of the module-level code of management/dashboard.py in session a.
\* The run ends at the first exception; what was assigned before it stays.
AdminModuleInit(a) ==
    LET s == admin[a]
        seed == SeedStudents(1, EmptyDict, studentsFile, studentsFile, nextId.student)
        otherFiles == {"attendance", "assignments", "leave"}
    IN
    /\ ~IsSet(s.teachers) \/ ~IsSet(s.students) \/ ~IsSet(s.leave_data)
    /\ IF ~IsSet(s.teachers) /\ teachersFile = EmptyDict
       THEN \* hash_password is used at line 79 before its def at line 157: NameError
            /\ admin' = [admin EXCEPT ![a].teachers = Some(EmptyDict)]
            /\ UNCHANGED <<files, nextId>>
            /\ Ran("NameError", "")
       ELSE LET t == IF IsSet(s.teachers) THEN s.teachers ELSE Some(teachersFile)
            IN IF ~IsSet(s.students) /\ studentsFile = EmptyDict
               THEN /\ seed.next <= MaxStudentId + 1
                    /\ studentsFile' = seed.file
                    /\ exists' = IF seed.file # studentsFile THEN exists \cup {"students"} ELSE exists
                    /\ nextId' = [nextId EXCEPT !.student = seed.next]
                    /\ IF seed.raised
                       THEN /\ admin' = [admin EXCEPT ![a].teachers = t,
                                                      ![a].students = Some(seed.cache)]
                            /\ UNCHANGED <<teachersFile, leaveFile, attendanceFile, assignmentsFile>>
                            /\ Ran("ValueError", "seeded")
                       ELSE /\ admin' = [admin EXCEPT ![a].teachers = t,
                                                      ![a].students = Some(seed.cache),
                                                      ![a].leave_data = IF IsSet(s.leave_data) THEN s.leave_data ELSE Some(leaveFile),
                                                      ![a].fee_data = IF IsSet(s.fee_data) THEN s.fee_data ELSE Some(feeFile)]
                            /\ UNCHANGED <<teachersFile, leaveFile, attendanceFile, assignmentsFile>>
                            /\ Ran("", "seeded")
               ELSE /\ admin' = [admin EXCEPT
                            ![a].teachers = t,
                            ![a].students = IF IsSet(s.students) THEN s.students ELSE Some(studentsFile),
                            ![a].leave_data = IF IsSet(s.leave_data) THEN s.leave_data ELSE Some(leaveFile),
                            ![a].fee_data = IF IsSet(s.fee_data) THEN s.fee_data ELSE Some(feeFile)]
                    \* an empty collection is saved back as {}: the file exists afterwards
                    /\ exists' = exists \cup
                         (IF ~IsSet(s.leave_data) /\ leaveFile = EmptyDict THEN {"leave"} ELSE {}) \cup
                         (IF attendanceFile = EmptyDict THEN {"attendance"} ELSE {}) \cup
                         (IF timetableFile = EmptyDict THEN {"timetable"} ELSE {}) \cup
                         (IF ~IsSet(s.fee_data) /\ feeFile = EmptyDict THEN {"fee"} ELSE {}) \cup
                         (IF assignmentsFile = EmptyDict THEN {"assignments"} ELSE {})
                    /\ UNCHANGED <<teachersFile, studentsFile, leaveFile, attendanceFile, assignmentsFile, nextId>>
                    /\ Ran("", "")
    /\ UNCHANGED <<teacher, parent, authenticated>>
    /\ UNCHANGED <<default_value, codec, feeFile, timetableFile>>

\* the module-level code has run through: show() is reached
AdminReady(a) == IsSet(admin[a].teachers) /\ IsSet(admin[a].students) /\ IsSet(admin[a].leave_data)

(***************************************************************************)
(* management/dashboard.py: admin registration, login, logout              *)
(***************************************************************************)
\* teacher.get('username') == username and teacher.get('password') == hash_password(password)
CredentialsMatch(rec, username, password) ==
    /\ RecGet(rec, "username") = Some(username)
    /\ RecGet(rec, "password") = Some(hash_password(password))

\* a scan that accepts every record with this username and password hash
authenticate_adminAnyTeacher(teachers, username, password) ==
    LET hits == {i \in 1..Len(teachers) : CredentialsMatch(teachers[i].v, username, password)}
    IN IF hits = {} THEN None
       ELSE Some(teachers[CHOOSE i \in hits : \A j \in hits : i <= j].k)

\* for teacher_id, teacher in teachers.items(): first record matching username, hash and is_admin
authenticate_admin(teachers, username, password) ==
    LET hits == {i \in 1..Len(teachers) :
                    /\ CredentialsMatch(teachers[i].v, username, password)
                    /\ RecGet(teachers[i].v, "is_admin") = Some(TRUE)}
    IN IF hits = {} THEN None
       ELSE Some(teachers[CHOOSE i \in hits : \A j \in hits : i <= j].k)

\* a username test that looks at the admin records only
UsernameExistsAmongAdmins(teachers, username) ==
    \E i \in 1..Len(teachers) : /\ RecGet(teachers[i].v, "username") = Some(username)
                                /\ RecGet(teachers[i].v, "is_admin") = Some(TRUE)

\* any(t.get('username') == new_username for t in teachers.values())
UsernameExists(teachers, username) ==
    \E i \in 1..Len(teachers) : RecGet(teachers[i].v, "username") = Some(username)

\* any(teacher.get('is_admin', False) for teacher in teachers.values())
HasAdmin(teachers) == \E i \in 1..Len(teachers) : RecGet(teachers[i].v, "is_admin") = Some(TRUE)

\* register_admin_page: "Register Admin" pressed
RegisterAdmin(a, username, password, confirm) ==
    LET teachers == Val(admin[a].teachers)
        new == [id |-> nextId.teacher, username |-> username, password |-> hash_password(password),
                is_admin |-> ~HasAdmin(teachers), email |-> ""]
        teachers2 == Put(teachers, nextId.teacher, new)
    IN
    /\ AdminReady(a) /\ ~admin[a].admin_logged_in
    /\ IF username = "" \/ password = "" \/ confirm = ""
       THEN /\ UNCHANGED <<files, admin, nextId>>
            /\ Ran("Please fill all required fields (*)", "")
       ELSE IF password # confirm
       THEN /\ UNCHANGED <<files, admin, nextId>>
            /\ Ran("Passwords do not match.", "")
       ELSE IF UsernameExists(teachers, username)
       THEN /\ UNCHANGED <<files, admin, nextId>>
            /\ Ran("Username already exists.", "")
       ELSE /\ nextId.teacher <= MaxTeacherId
            /\ admin' = [admin EXCEPT ![a].teachers = Some(teachers2)]
            /\ teachersFile' = teachers2
            /\ exists' = exists \cup {"teachers"}
            /\ nextId' = [nextId EXCEPT !.teacher = @ + 1]
            /\ UNCHANGED <<studentsFile, leaveFile, attendanceFile, assignmentsFile>>
            /\ Ran("", "")
    /\ UNCHANGED <<teacher, parent, authenticated>>
    /\ UNCHANGED <<default_value, codec, feeFile, timetableFile>>

\* admin_login_or_register_page: "Login" pressed
AdminLogin(a, username, password) ==
    LET id == authenticate_admin(Val(admin[a].teachers), username, password)
    IN
    /\ AdminReady(a) /\ ~admin[a].admin_logged_in
    /\ IF IsSet(id)
       THEN /\ admin' = [admin EXCEPT ![a].admin_logged_in = TRUE, ![a].admin_id = id]
            /\ authenticated' = authenticated \cup {a}
            /\ Ran("", "")
       ELSE /\ UNCHANGED <<admin, authenticated>>
            /\ Ran("Invalid admin username or password.",
                   IF \E i \in 1..Len(Val(admin[a].teachers)) :
                         CredentialsMatch(Val(admin[a].teachers)[i].v, username, password)
                   THEN "refused the credentials of a non-admin" ELSE "")
    /\ UNCHANGED <<files, teacher, parent, nextId>>
    /\ UNCHANGED <<default_value, codec, feeFile, timetableFile>>

\* show(): the dashboard is rendered only past the admin_logged_in check
AdminDashboard(a) == AdminReady(a) /\ admin[a].admin_logged_in

\* sidebar "Logout": st.session_state.clear()
AdminLogout(a) ==
    /\ AdminDashboard(a)
    /\ admin' = [admin EXCEPT ![a] = AdminFresh]
    /\ authenticated' = authenticated \ {a}
    /\ Ran("", "")
    /\ UNCHANGED <<files, teacher, parent, nextId>>
    /\ UNCHANGED <<default_value, codec, feeFile, timetableFile>>

(***************************************************************************)
(* management/dashboard.py: manage_students_admin                          *)
(***************************************************************************)
NewStudent(id, adm, name, c) ==
    [id |-> id, admission_no |-> adm, name |-> name, class |-> c,
     parent_name |-> None, parent_password |-> None]

\* the add branch shared by the admin and the teacher form: the duplicate
\* check over all partitions, then append to the class partition
AddStudentTo(d, id, adm, name, c) ==
    IF AdmissionExists(d, adm) THEN d
    ELSE Put(d, c, Append(GetOr(d, c, <<>>), NewStudent(id, adm, name, c)))

\* a handler that works on the file as it is now
student_dataReloaded(a) == studentsFile

\* student_data = st.session_state.students: the copy loaded at the session's first run
student_data(a) == Val(admin[a].students)

\* what a save of the session's copy does to the records other sessions
\* have saved since the copy was loaded
SaveNote(cache) ==
    IF \E i \in 1..Len(AllStudents(studentsFile)) :
          \A j \in 1..Len(AllStudents(cache)) : AllStudents(cache)[j] # AllStudents(studentsFile)[i]
    THEN "saved over the records of another session" ELSE ""

\* "Add Student" pressed in an admin session: works on the session's copy
AdminAddStudent(a, adm, name, c) ==
    LET cache == student_data(a)
        cache2 == AddStudentTo(cache, nextId.student, adm, name, c)
    IN
    /\ AdminDashboard(a)
    /\ IF adm = EmptyInput \/ name = EmptyInput
       THEN /\ UNCHANGED <<files, admin, nextId>>
            /\ Ran("Please fill all required fields (*)", "")
       ELSE IF AdmissionExists(cache, adm)
       THEN /\ UNCHANGED <<files, admin, nextId>>
            /\ Ran("Admission Number already exists.", "")
       ELSE /\ nextId.student <= MaxStudentId
            /\ admin' = [admin EXCEPT ![a].students = Some(cache2)]
            /\ studentsFile' = cache2
            /\ exists' = exists \cup {"students"}
            /\ nextId' = [nextId EXCEPT !.student = @ + 1]
            /\ UNCHANGED <<teachersFile, leaveFile, attendanceFile, assignmentsFile>>
            /\ Ran("", SaveNote(cache))
    /\ UNCHANGED <<teacher, parent, authenticated>>
    /\ UNCHANGED <<default_value, codec, feeFile, timetableFile>>

\* the first student with this admission number, partition by partition
FindByAdmission(d, adm) ==
    LET all == AllStudents(d)
        hits == {i \in 1..Len(all) : all[i].admission_no = adm}
    IN all[CHOOSE i \in hits : \A j \in hits : i <= j]

\* student_data_to_update.update({...}) on the record with this id in partition c
UpdateStudent(d, c, id, name) ==
    LET list == Get(d, c)
        hits == {i \in 1..Len(list) : list[i].id = id}
        first == CHOOSE i \in hits : \A j \in hits : i <= j
    IN Put(d, c, [list EXCEPT ![first].name = name])

\* the list without the record, and the partition removed when it is empty
DeleteStudent(d, c, id) ==
    LET rest == Filter(Get(d, c), id)
    IN IF rest = <<>> THEN Del(d, c) ELSE Put(d, c, rest)

\* "Save Changes" of the edit form in an admin session
AdminEditStudent(a, adm, name) ==
    LET cache == student_data(a)
        sel == FindByAdmission(cache, adm)
        cache2 == UpdateStudent(cache, sel.class, sel.id, name)
    IN
    /\ AdminDashboard(a)
    /\ AdmissionExists(cache, adm)
    /\ admin' = [admin EXCEPT ![a].students = Some(cache2)]
    /\ studentsFile' = cache2
    /\ exists' = exists \cup {"students"}
    /\ UNCHANGED <<teachersFile, leaveFile, attendanceFile, assignmentsFile, nextId>>
    /\ Ran("", SaveNote(cache))
    /\ UNCHANGED <<teacher, parent, authenticated>>
    /\ UNCHANGED <<default_value, codec, feeFile, timetableFile>>

\* "Confirm Delete" in an admin session
AdminDeleteStudent(a, adm) ==
    LET cache == student_data(a)
        sel == FindByAdmission(cache, adm)
        cache2 == DeleteStudent(cache, sel.class, sel.id)
    IN
    /\ AdminDashboard(a)
    /\ AdmissionExists(cache, adm)
    /\ admin' = [admin EXCEPT ![a].students = Some(cache2)]
    /\ studentsFile' = cache2
    /\ exists' = exists \cup {"students"}
    /\ UNCHANGED <<teachersFile, leaveFile, attendanceFile, assignmentsFile, nextId>>
    /\ Ran("", SaveNote(cache))
    /\ UNCHANGED <<teacher, parent, authenticated>>
    /\ UNCHANGED <<default_value, codec, feeFile, timetableFile>>

(***************************************************************************)
(* teachers/dashboard.py: teacher_module session start, profile, logout    *)
(***************************************************************************)
MockTeacher(id) ==
    [id |-> id, username |-> "janedoe", password |-> hash_password("password123"),
     is_admin |-> FALSE, email |-> "jane.doe@example.com"]

\* teacher_module() in a session without 'teacher_id': a mock teacher with a
\* fresh id is written to the teacher file and the session is marked logged in
TeacherModuleStart(t) ==
    /\ ~IsSet(teacher[t].teacher_id)
    /\ nextId.teacher <= MaxTeacherId
    /\ teachersFile' = Put(teachersFile, nextId.teacher, MockTeacher(nextId.teacher))
    /\ exists' = exists \cup {"teachers"}
    /\ teacher' = [teacher EXCEPT ![t] = [teacher_id |-> Some(nextId.teacher),
                                          teacher_data |-> Some(MockTeacher(nextId.teacher)),
                                          logged_in |-> TRUE]]
    /\ nextId' = [nextId EXCEPT !.teacher = @ + 1]
    /\ UNCHANGED <<studentsFile, leaveFile, attendanceFile, assignmentsFile>>
    /\ Ran("", "")
    /\ UNCHANGED <<admin, parent, authenticated>>
    /\ UNCHANGED <<default_value, codec, feeFile, timetableFile>>

\* the dashboard below the session start
TeacherDashboard(t) == IsSet(teacher[t].teacher_id)

\* sidebar "Logout": st.session_state.clear()
TeacherLogout(t) ==
    /\ TeacherDashboard(t)
    /\ teacher' = [teacher EXCEPT ![t] = TeacherFresh]
    /\ authenticated' = authenticated \ {t}
    /\ Ran("", "")
    /\ UNCHANGED <<files, admin, parent, nextId>>
    /\ UNCHANGED <<default_value, codec, feeFile, timetableFile>>

(***************************************************************************)
(* teachers/dashboard.py: Student Management                               *)
(***************************************************************************)
\* "Add Student" pressed in a teacher session: works on the file
TeacherAddStudent(t, adm, name, c) ==
    /\ TeacherDashboard(t)
    /\ "students" \in exists
    /\ IF adm = EmptyInput \/ name = EmptyInput
       THEN /\ UNCHANGED <<files, nextId>>
            /\ Ran("Please fill all required fields (*)", "")
       ELSE IF AdmissionExists(studentsFile, adm)
       THEN /\ UNCHANGED <<files, nextId>>
            /\ Ran("Admission Number already exists.", "")
       ELSE /\ nextId.student <= MaxStudentId
            /\ studentsFile' = AddStudentTo(studentsFile, nextId.student, adm, name, c)
            /\ nextId' = [nextId EXCEPT !.student = @ + 1]
            /\ UNCHANGED <<teachersFile, leaveFile, attendanceFile, assignmentsFile, exists>>
            /\ Ran("", "")
    /\ UNCHANGED <<admin, teacher, parent, authenticated>>
    /\ UNCHANGED <<default_value, codec, feeFile, timetableFile>>

TeacherEditStudent(t, adm, name) ==
    LET sel == FindByAdmission(studentsFile, adm)
    IN
    /\ TeacherDashboard(t)
    /\ "students" \in exists
    /\ AdmissionExists(studentsFile, adm)
    /\ studentsFile' = UpdateStudent(studentsFile, sel.class, sel.id, name)
    /\ UNCHANGED <<teachersFile, leaveFile, attendanceFile, assignmentsFile, exists, nextId>>
    /\ Ran("", "")
    /\ UNCHANGED <<admin, teacher, parent, authenticated>>
    /\ UNCHANGED <<default_value, codec, feeFile, timetableFile>>

TeacherDeleteStudent(t, adm) ==
    LET sel == FindByAdmission(studentsFile, adm)
    IN
    /\ TeacherDashboard(t)
    /\ "students" \in exists
    /\ AdmissionExists(studentsFile, adm)
    /\ studentsFile' = DeleteStudent(studentsFile, sel.class, sel.id)
    /\ UNCHANGED <<teachersFile, leaveFile, attendanceFile, assignmentsFile, exists, nextId>>
    /\ Ran("", "")
    /\ UNCHANGED <<admin, teacher, parent, authenticated>>
    /\ UNCHANGED <<default_value, codec, feeFile, timetableFile>>

\* a duplicate check that looks only into the class partition of the row
RowIsDuplicateInClassOnly(d, row) ==
    \E j \in 1..Len(Get(d, row.class)) : Get(d, row.class)[j].admission_no = row.admission_no

\* if any(s.get('admission_no') == admission_no for cls_students in
\* student_data.values() for s in cls_students)
RowIsDuplicate(d, row) == AdmissionExists(d, row.admission_no)

RECURSIVE ImportRows(_, _, _)
\* for _, row in df.iterrows(): the partition is created first, a row whose
\* admission number is already in the data (earlier rows included) is skipped
ImportRows(d, rows, id) ==
    IF rows = <<>> THEN [data |-> d, next |-> id]
    ELSE LET row == Head(rows)
             d1 == IF Has(d, row.class) THEN d ELSE Put(d, row.class, <<>>)
         IN IF RowIsDuplicate(d1, row)
            THEN ImportRows(d1, Tail(rows), id)
            ELSE ImportRows(Put(d1, row.class,
                                Append(Get(d1, row.class),
                                       NewStudent(id, row.admission_no, <<"New Student", 0, "">>, row.class))),
                            Tail(rows), id + 1)

RowInputs == {[class |-> "Nursery", admission_no |-> AdmNo(9001)],
              [class |-> "Unknown Class", admission_no |-> AdmNo(1001)]}
CsvInputs == UNION {[1..n -> RowInputs] : n \in 1..MaxCsvRows}

\* "Import Students" pressed
BulkImport(t, rows) ==
    LET r == ImportRows(studentsFile, rows, nextId.student)
    IN
    /\ TeacherDashboard(t)
    /\ "students" \in exists
    /\ r.next <= MaxStudentId + 1
    /\ studentsFile' = r.data
    /\ nextId' = [nextId EXCEPT !.student = r.next]
    /\ UNCHANGED <<teachersFile, leaveFile, attendanceFile, assignmentsFile, exists>>
    /\ Ran("", "")
    /\ UNCHANGED <<admin, teacher, parent, authenticated>>
    /\ UNCHANGED <<default_value, codec, feeFile, timetableFile>>

(***************************************************************************)
(* parents/dashboard.py: parent registration, login, logout                *)
(***************************************************************************)
\* a scan that accepts every student with this admission number that has a
\* parent password
authenticate_parentAnyPassword(d, adm, password) ==
    LET all == AllStudents(d)
        hits == {i \in 1..Len(all) :
                    /\ all[i].admission_no = adm
                    /\ IsSet(all[i].parent_password)}
    IN IF hits = {} THEN None
       ELSE Some(all[CHOOSE i \in hits : \A j \in hits : i <= j])

\* the first student with this admission number and this password hash
authenticate_parent(d, adm, password) ==
    LET all == AllStudents(d)
        hits == {i \in 1..Len(all) :
                    /\ all[i].admission_no = adm
                    /\ all[i].parent_password = Some(hash_password(password))}
    IN IF hits = {} THEN None
       ELSE Some(all[CHOOSE i \in hits : \A j \in hits : i <= j])

\* student_data[class_name][i][...] = ... on the first student with this admission number
SetParent(d, adm, pname, password) ==
    LET sel == FindByAdmission(d, adm)
        list == Get(d, sel.class)
        hits == {i \in 1..Len(list) : list[i].admission_no = adm}
        first == CHOOSE i \in hits : \A j \in hits : i <= j
    IN Put(d, sel.class, [list EXCEPT ![first].parent_name = Some(pname),
                                      ![first].parent_password = Some(hash_password(password))])

\* a registration that takes every student for one without parent account
HasParentAccountNever(student) == FALSE

\* if student.get('parent_password'): a parent account exists for the student
HasParentAccount(student) == IsSet(student.parent_password)

\* "Register Parent Account" pressed
RegisterParent(p, adm, pname, password, confirm) ==
    /\ ~parent[p].parent_logged_in
    /\ IF adm = EmptyInput \/ pname = "" \/ password = "" \/ confirm = ""
       THEN /\ UNCHANGED files
            /\ Ran("Please fill all required fields (*)", "")
       ELSE IF password # confirm
       THEN /\ UNCHANGED files
            /\ Ran("Passwords do not match.", "")
       ELSE IF ~AdmissionExists(studentsFile, adm)
       THEN /\ UNCHANGED files
            /\ Ran("Admission Number not found.", "")
       ELSE IF HasParentAccount(FindByAdmission(studentsFile, adm))
       THEN /\ UNCHANGED files
            /\ Ran("A parent account already exists.", "")
       ELSE /\ studentsFile' = SetParent(studentsFile, adm, pname, password)
            /\ exists' = exists \cup {"students"}
            /\ UNCHANGED <<teachersFile, leaveFile, attendanceFile, assignmentsFile>>
            /\ Ran("", "")
    /\ UNCHANGED <<admin, teacher, parent, nextId, authenticated>>
    /\ UNCHANGED <<default_value, codec, feeFile, timetableFile>>

\* parent_login_or_register_page: "Login" pressed
ParentLogin(p, adm, password) ==
    LET st == authenticate_parent(studentsFile, adm, password)
    IN
    /\ ~parent[p].parent_logged_in
    /\ IF IsSet(st)
       THEN /\ parent' = [parent EXCEPT ![p] = [parent_logged_in |-> TRUE, logged_in_student |-> st]]
            /\ authenticated' = authenticated \cup {p}
            /\ Ran("", "")
       ELSE /\ UNCHANGED <<parent, authenticated>>
            /\ Ran("Invalid Admission Number or password.", "")
    /\ UNCHANGED <<files, admin, teacher, nextId>>
    /\ UNCHANGED <<default_value, codec, feeFile, timetableFile>>

\* show(): the dashboard is rendered only past the parent_logged_in check
ParentDashboard(p) == parent[p].parent_logged_in

\* sidebar "Logout": st.session_state.clear()
ParentLogout(p) ==
    /\ ParentDashboard(p)
    /\ parent' = [parent EXCEPT ![p] = ParentFresh]
    /\ authenticated' = authenticated \ {p}
    /\ Ran("", "")
    /\ UNCHANGED <<files, admin, teacher, nextId>>
    /\ UNCHANGED <<default_value, codec, feeFile, timetableFile>>

(***************************************************************************)
(* Specification of the Students collection                                *)
(***************************************************************************)
Usernames == {"admin", "janedoe"}

NextStudents ==
    \/ \E a \in {"a1"} : AdminModuleInit(a)
    \/ \E a \in {"a1"} : RegisterAdmin(a, "admin", "pw1", "pw1")
    \/ \E a \in {"a1"} : AdminLogin(a, "admin", "pw1")
    \/ \E a \in {"a1"}, adm \in AdmInputs, n \in NameInputs, c \in {"Grade 1A"} :
          AdminAddStudent(a, adm, n, c)
    \/ \E a \in {"a1"}, adm \in AdmInputs, n \in NameInputs : AdminEditStudent(a, adm, n)
    \/ \E a \in {"a1"}, adm \in AdmInputs : AdminDeleteStudent(a, adm)
    \/ \E t \in {"t1"} : TeacherModuleStart(t)
    \/ \E t \in {"t1"}, adm \in AdmInputs, n \in NameInputs, c \in {"Grade 1A"} :
          TeacherAddStudent(t, adm, n, c)
    \/ \E t \in {"t1"}, adm \in AdmInputs, n \in NameInputs : TeacherEditStudent(t, adm, n)
    \/ \E t \in {"t1"}, adm \in AdmInputs : TeacherDeleteStudent(t, adm)
    \/ \E t \in {"t1"}, rows \in CsvInputs : BulkImport(t, rows)
    \/ \E p \in {"p1"}, adm \in AdmInputs, pw \in Passwords :
          RegisterParent(p, adm, "Rao", "pw1", pw)

SpecStudents == Init /\ [][NextStudents]_vars

\* C1: in every reachable state no two distinct student records of the
\* persisted Student collection share an admission number, across all class
\* partitions (after seeding, add by admin or teacher, bulk import, edit,
\* delete and parent registration)
UniqueAdmissionNumbers ==
    LET all == AllStudents(studentsFile)
    IN \A i, j \in 1..Len(all) : i # j => all[i].admission_no # all[j].admission_no

\* the seeded students are there, ADM9001 was added, a bulk import met the
\* existing ADM1001 in a row for a new class, a parent account is set
C1Witness ==
    LET all == AllStudents(studentsFile)
    IN /\ Len(all) >= 7
       /\ AdmissionExists(studentsFile, AdmNo(1001))
       /\ AdmissionExists(studentsFile, AdmNo(9001))
       /\ Has(studentsFile, "Unknown Class")
       /\ \E i \in 1..Len(all) : IsSet(all[i].parent_password)

\* C2: an add-student request whose admission number is in some class
\* partition of the Student collection is rejected with the duplicate error,
\* and the collection, cached and persisted, stays as it was
DuplicateAddRejected ==
    [][\A adm \in AdmInputs :
          (/\ AdmissionExists(studentsFile, adm)
           /\ \/ \E a \in AdminSessions, n \in NameInputs, c \in {"Grade 1A"} :
                     AdminAddStudent(a, adm, n, c)
              \/ \E t \in TeacherSessions, n \in NameInputs, c \in {"Grade 1A"} :
                     TeacherAddStudent(t, adm, n, c))
          => /\ studentsFile' = studentsFile
             /\ admin' = admin
             /\ lastOp'.msg = "Admission Number already exists."]_vars

\* an admin session with an early copy of the Student collection, and a
\* teacher and a parent session that change the file
NextLastWriter ==
    \/ \E a \in {"a1"} : AdminModuleInit(a)
    \/ \E a \in {"a1"} : RegisterAdmin(a, "admin", "pw1", "pw1")
    \/ \E a \in {"a1"} : AdminLogin(a, "admin", "pw1")
    \/ \E a \in {"a1"}, adm \in AdmInputs, n \in NameInputs, c \in {"Grade 1A"} :
          AdminAddStudent(a, adm, n, c)
    \/ \E a \in {"a1"}, adm \in AdmInputs, n \in NameInputs : AdminEditStudent(a, adm, n)
    \/ \E a \in {"a1"}, adm \in AdmInputs : AdminDeleteStudent(a, adm)
    \/ \E t \in {"t1"} : TeacherModuleStart(t)
    \/ \E t \in {"t1"}, adm \in AdmInputs, n \in NameInputs, c \in {"Grade 1A"} :
          TeacherAddStudent(t, adm, n, c)
    \/ \E t \in {"t1"} : TeacherDeleteStudent(t, AdmNo(1002))
    \/ \E p \in {"p1"} : RegisterParent(p, AdmNo(1001), "Rao", "pw1", "pw1")

SpecLastWriter == Init /\ [][NextLastWriter]_vars

\* the student records of a students dict
StudentRecords(d) == {AllStudents(d)[i] : i \in 1..Len(AllStudents(d))}

\* a save of the Student collection by an admin session, for the student
\* with this admission number
AdminSavesStudent(a, adm) ==
    /\ \/ \E n \in NameInputs, c \in {"Grade 1A"} : AdminAddStudent(a, adm, n, c)
       \/ \E n \in NameInputs : AdminEditStudent(a, adm, n)
       \/ AdminDeleteStudent(a, adm)
    /\ lastOp'.msg = ""

\* C14: when an admin session saves its copy of the Student collection, the
\* persisted collection becomes that copy: every record another session had
\* saved since the copy was loaded, for another student, is gone, the
\* admin's own change is there, and no error is shown
LastWriterWins ==
    [][\A a \in AdminSessions, adm \in AdmInputs :
          AdminSavesStudent(a, adm)
          => /\ studentsFile' = Val(admin'[a].students)
             /\ \A r \in StudentRecords(studentsFile) \ StudentRecords(Val(admin[a].students)) :
                   r.admission_no # adm => r \notin StudentRecords(studentsFile')
             /\ \A r \in StudentRecords(Val(admin[a].students)) \ StudentRecords(studentsFile) :
                   r.admission_no # adm => r \in StudentRecords(studentsFile')
             /\ \A n \in NameInputs, c \in {"Grade 1A"} :
                   AdminAddStudent(a, adm, n, c)
                   => NewStudent(nextId.student, adm, n, c) \in StudentRecords(studentsFile')
             /\ \A n \in NameInputs :
                   AdminEditStudent(a, adm, n) => FindByAdmission(studentsFile', adm).name = n
             /\ AdminDeleteStudent(a, adm)
                   => FindByAdmission(Val(admin[a].students), adm) \notin StudentRecords(studentsFile')
             /\ lastOp'.msg = ""]_vars

\* the admin renamed ADM1001 from a copy loaded before a teacher added
\* ADM9001 and deleted ADM1002 and a parent registered: its save is the last
\* one, the added student and the parent account are gone, ADM1002 is back
C14Witness ==
    /\ lastOp.note = "saved over the records of another session"
    /\ nextId.student > 7
    /\ ~AdmissionExists(studentsFile, AdmNo(9001))
    /\ AdmissionExists(studentsFile, AdmNo(1002))
    /\ AdmissionExists(studentsFile, AdmNo(1001))
    /\ FindByAdmission(studentsFile, AdmNo(1001)).name = <<"Asha", 0, "">>
    /\ \A r \in StudentRecords(studentsFile) : r.parent_password = None

(***************************************************************************)
(* Leave applications: teachers, parents and the admin                     *)
(***************************************************************************)
\* leave_data['student_leaves']: the one partition of all student leaves; the
\* other partitions are keyed by teacher id (ids start at 1)
STUDENT_LEAVES == 0

CommentInputs == {"noted"}

\* all leave records of a leave dict, partition by partition
RECURSIVE AllLeaves(_)
AllLeaves(d) == IF d = <<>> THEN <<>> ELSE Head(d).v \o AllLeaves(Tail(d))

LeaveIds(d) == {AllLeaves(d)[i].id : i \in 1..Len(AllLeaves(d))}

\* the first leave with this id, partition by partition
FindLeave(d, lid) ==
    LET all == AllLeaves(d)
        hits == {i \in 1..Len(all) : all[i].id = lid}
    IN all[CHOOSE i \in hits : \A j \in hits : i <= j]

NewLeave(id, target) ==
    [id |-> id, target_id |-> target, status |-> "Pending", comments |-> ""]

\* teacher_module, Leave: "Submit Application" pressed
TeacherApplyLeave(t) ==
    LET tid == Val(teacher[t].teacher_id)
        leave_data == GetOr(leaveFile, tid, <<>>)
    IN
    /\ TeacherDashboard(t)
    /\ "leave" \in exists
    /\ nextId.leave <= MaxLeaveId
    /\ leaveFile' = Put(leaveFile, tid, Append(leave_data, NewLeave(nextId.leave, None)))
    /\ nextId' = [nextId EXCEPT !.leave = @ + 1]
    /\ UNCHANGED <<teachersFile, studentsFile, attendanceFile, assignmentsFile, exists>>
    /\ Ran("", "")
    /\ UNCHANGED <<admin, teacher, parent, authenticated>>
    /\ UNCHANGED <<default_value, codec, feeFile, timetableFile>>

\* apply_for_student_leave: "Submit Leave Application" pressed
ParentApplyLeave(p) ==
    LET student_info == Val(parent[p].logged_in_student)
        list == GetOr(leaveFile, STUDENT_LEAVES, <<>>)
    IN
    /\ ParentDashboard(p)
    /\ nextId.leave <= MaxLeaveId
    /\ leaveFile' = Put(leaveFile, STUDENT_LEAVES,
                        Append(list, NewLeave(nextId.leave, Some(student_info.id))))
    /\ exists' = exists \cup {"leave"}
    /\ nextId' = [nextId EXCEPT !.leave = @ + 1]
    /\ UNCHANGED <<teachersFile, studentsFile, attendanceFile, assignmentsFile>>
    /\ Ran("", "")
    /\ UNCHANGED <<admin, teacher, parent, authenticated>>
    /\ UNCHANGED <<default_value, codec, feeFile, timetableFile>>

\* a cancel test that only refuses what is canceled already
CancelAllowedUnlessCanceled(leave_obj) == leave_obj.status # "Canceled"

\* leave_obj['status'] == 'Pending'
CancelAllowed(leave_obj) == leave_obj.status = "Pending"

\* leave_data['student_leaves'][i]['status'] = 'Canceled' on the first leave
\* with this id that may be canceled
CancelIn(list, lid) ==
    LET hits == {i \in 1..Len(list) : list[i].id = lid /\ CancelAllowed(list[i])}
    IN IF hits = {} THEN list
       ELSE [list EXCEPT ![CHOOSE i \in hits : \A j \in hits : i <= j].status = "Canceled"]

\* apply_for_student_leave: "Confirm Cancel Leave ID" pressed for a leave of
\* the session's child; the run works on the freshly loaded file
ParentCancelLeave(p, lid) ==
    LET student_info == Val(parent[p].logged_in_student)
        list == GetOr(leaveFile, STUDENT_LEAVES, <<>>)
        mine == {i \in 1..Len(list) : list[i].id = lid /\ list[i].target_id = Some(student_info.id)}
        list2 == CancelIn(list, lid)
    IN
    /\ ParentDashboard(p)
    /\ mine # {}
    /\ IF list2 # list
       THEN /\ leaveFile' = Put(leaveFile, STUDENT_LEAVES, list2)
            /\ Ran("", "canceled")
       ELSE /\ UNCHANGED leaveFile
            /\ Ran("", "cancel refused")
    /\ UNCHANGED <<teachersFile, studentsFile, attendanceFile, assignmentsFile, exists>>
    /\ UNCHANGED <<admin, teacher, parent, nextId, authenticated>>
    /\ UNCHANGED <<default_value, codec, feeFile, timetableFile>>

\* the options of the "Change Status to" radio
StatusOptions == {"Pending", "Approved", "Rejected"}

RECURSIVE UpdateLeave(_, _, _, _)
\* the first leave with this id, partition by partition, gets status and comments
UpdateLeave(d, lid, new_status, comments) ==
    IF d = <<>> THEN <<>>
    ELSE LET list == Head(d).v
             hits == {i \in 1..Len(list) : list[i].id = lid}
             first == CHOOSE i \in hits : \A j \in hits : i <= j
         IN IF hits = {}
            THEN <<Head(d)>> \o UpdateLeave(Tail(d), lid, new_status, comments)
            ELSE <<[k |-> Head(d).k,
                    v |-> [list EXCEPT ![first].status = new_status,
                                       ![first].comments = comments]]>> \o Tail(d)

\* a page that reads the Leave collection from its file on every run
leave_data_all_teachersReloaded(a) == leaveFile

\* leave_data_all_teachers = st.session_state.leave_data
leave_data_all_teachers(a) == Val(admin[a].leave_data)

\* manage_leave_applications: "Update Leave Status" pressed in an admin
\* session: works on the session's copy and writes the whole copy back
AdminUpdateLeaveStatus(a, lid, new_status, comments) ==
    LET cache == leave_data_all_teachers(a)
        cache2 == UpdateLeave(cache, lid, new_status, comments)
    IN
    /\ AdminDashboard(a)
    /\ lid \in LeaveIds(cache)
    /\ IF FindLeave(cache, lid).status \notin StatusOptions
       THEN \* [...].index(selected_leave.get('Status')) raises before the form is drawn
            /\ UNCHANGED <<files, admin>>
            /\ Ran("ValueError", "")
       ELSE /\ admin' = [admin EXCEPT ![a].leave_data = Some(cache2)]
            /\ leaveFile' = cache2
            /\ exists' = exists \cup {"leave"}
            /\ UNCHANGED <<teachersFile, studentsFile, attendanceFile, assignmentsFile>>
            /\ Ran("", "status updated")
    /\ UNCHANGED <<teacher, parent, nextId, authenticated>>
    /\ UNCHANGED <<default_value, codec, feeFile, timetableFile>>

(***************************************************************************)
(* Specification of the Leave collection                                   *)
(***************************************************************************)
NextLeave ==
    \/ \E a \in {"a1"} : AdminModuleInit(a)
    \/ \E a \in {"a1"} : RegisterAdmin(a, "admin", "pw1", "pw1")
    \/ \E a \in {"a1"} : AdminLogin(a, "admin", "pw1")
    \/ \E a \in {"a1"} : AdminLogout(a)
    \/ \E a \in {"a1"}, lid \in 1..MaxLeaveId, st \in StatusOptions, c \in CommentInputs :
          AdminUpdateLeaveStatus(a, lid, st, c)
    \/ \E t \in {"t1"} : TeacherModuleStart(t)
    \/ \E t \in {"t1"} : TeacherApplyLeave(t)
    \/ \E p \in {"p1"} : RegisterParent(p, AdmNo(1001), "Rao", "pw1", "pw1")
    \/ \E p \in {"p1"} : ParentLogin(p, AdmNo(1001), "pw1")
    \/ \E p \in {"p1"} : ParentApplyLeave(p)
    \/ \E p \in {"p1"}, lid \in 1..MaxLeaveId : ParentCancelLeave(p, lid)

SpecLeave == Init /\ [][NextLeave]_vars

LeaveStatus(d, lid) == FindLeave(d, lid).status

TerminalStatuses == {"Approved", "Rejected", "Canceled"}

\* C3: once a persisted leave application is Approved, Rejected or Canceled
\* its status is the same after every step of every session
TerminalStatusIsFinal ==
    [][\A lid \in LeaveIds(leaveFile) :
          /\ LeaveStatus(leaveFile, lid) \in TerminalStatuses
          /\ lid \in LeaveIds(leaveFile')
          => LeaveStatus(leaveFile', lid) = LeaveStatus(leaveFile, lid)]_vars

\* C4: a submitter's cancel turns a persisted Pending leave into Canceled and
\* changes nothing else; on a leave that is not Pending it changes nothing
\* in the Leave collection
CancelOnlyWhilePending ==
    [][\A p \in ParentSessions, lid \in 1..MaxLeaveId :
          ParentCancelLeave(p, lid)
          => IF LeaveStatus(leaveFile, lid) = "Pending"
             THEN /\ LeaveStatus(leaveFile', lid) = "Canceled"
                  /\ \A other \in LeaveIds(leaveFile) \ {lid} :
                        FindLeave(leaveFile', other) = FindLeave(leaveFile, other)
                  /\ LeaveIds(leaveFile') = LeaveIds(leaveFile)
             ELSE leaveFile' = leaveFile]_vars

\* a cancel was attempted on a leave the admin had approved, and was refused
C4Witness ==
    /\ lastOp.note = "cancel refused"
    /\ \E lid \in LeaveIds(leaveFile) :
          /\ FindLeave(leaveFile, lid).target_id # None
          /\ LeaveStatus(leaveFile, lid) = "Approved"
    /\ \E lid \in LeaveIds(leaveFile) : LeaveStatus(leaveFile, lid) = "Canceled"

(***************************************************************************)
(* Assignments: created and graded by teachers, submitted by parents       *)
(***************************************************************************)
TextInputs == {"draft", "final"}
GradeInputs == {Some(5)}
FeedbackInputs == {"redo"}
GradeStatusOptions == {"Submitted", "Graded", "Needs Revision"}

\* all assignments of an assignments dict, teacher by teacher
RECURSIVE AllAssignments(_)
AllAssignments(d) == IF d = <<>> THEN <<>> ELSE Head(d).v \o AllAssignments(Tail(d))

\* the index of the first element of a list with this value of the id field, 0 if none
FirstWithId(list, id) ==
    LET hits == {i \in 1..Len(list) : list[i].id = id}
    IN IF hits = {} THEN 0 ELSE CHOOSE i \in hits : \A j \in hits : i <= j

\* the index of the first submission of this student, 0 if none
FirstOfStudent(subs, student_id) ==
    LET hits == {i \in 1..Len(subs) : subs[i].student_id = student_id}
    IN IF hits = {} THEN 0 ELSE CHOOSE i \in hits : \A j \in hits : i <= j

\* teacher_module, Assignments: "Create Assignment" pressed
TeacherCreateAssignment(t, c) ==
    LET tid == Val(teacher[t].teacher_id)
        assignments_data == GetOr(assignmentsFile, tid, <<>>)
        new_assignment == [id |-> nextId.assign, assigned_class |-> c, submissions |-> <<>>]
    IN
    /\ TeacherDashboard(t)
    /\ "assignments" \in exists
    /\ assignmentsFile' = Put(assignmentsFile, tid, Append(assignments_data, new_assignment))
    /\ nextId' = [nextId EXCEPT !.assign = @ + 1]
    /\ UNCHANGED <<teachersFile, studentsFile, leaveFile, attendanceFile, exists>>
    /\ Ran("", "")
    /\ UNCHANGED <<admin, teacher, parent, authenticated>>
    /\ UNCHANGED <<default_value, codec, feeFile, timetableFile>>

\* a grading that writes the form's values into every submission of the list
GradeEverySubmission(subs, j, grade, feedback, status) ==
    [n \in 1..Len(subs) |->
        [subs[n] EXCEPT !.grade = grade, !.feedback = feedback, !.status = status]]

\* sub['grade'], sub['feedback'], sub['status'] assigned on the submission of the form
GradeSubmission(subs, j, grade, feedback, status) ==
    [subs EXCEPT ![j].grade = grade, ![j].feedback = feedback, ![j].status = status]

\* teacher_module, Assignments: "Submit Grade" pressed in the form of one submission
TeacherGrade(t, aid, student_id, grade, feedback, status) ==
    LET tid == Val(teacher[t].teacher_id)
        assignments_data == GetOr(assignmentsFile, tid, <<>>)
        i == FirstWithId(assignments_data, aid)
        subs == assignments_data[i].submissions
        j == FirstOfStudent(subs, student_id)
        subs2 == GradeSubmission(subs, j, grade, feedback, status)
    IN
    /\ TeacherDashboard(t)
    /\ "assignments" \in exists
    /\ i # 0
    /\ j # 0
    /\ subs[j].status \in GradeStatusOptions
    /\ status \in GradeStatusOptions
    /\ assignmentsFile' = Put(assignmentsFile, tid,
                              [assignments_data EXCEPT ![i].submissions = subs2])
    /\ UNCHANGED <<teachersFile, studentsFile, leaveFile, attendanceFile, exists>>
    /\ Ran("", "")
    /\ UNCHANGED <<admin, teacher, parent, nextId, authenticated>>
    /\ UNCHANGED <<default_value, codec, feeFile, timetableFile>>

\* the status shown for the child: that of its first submission
SubmissionStatus(assignment, student_id) ==
    LET j == FirstOfStudent(assignment.submissions, student_id)
    IN IF j = 0 THEN "Not Submitted" ELSE assignment.submissions[j].status

\* a lookup of the earlier submission by the new record's own id
ExistingSubmissionIndexById(subs, new_submission) == FirstWithId(subs, new_submission.id)

\* existing_submission_index: looked up by student id
ExistingSubmissionIndex(subs, new_submission) == FirstOfStudent(subs, new_submission.student_id)

\* replace the existing submission in place, or append
StoreSubmission(subs, new_submission) ==
    LET existing == ExistingSubmissionIndex(subs, new_submission)
    IN IF existing # 0 THEN [subs EXCEPT ![existing] = new_submission]
       ELSE Append(subs, new_submission)

RECURSIVE SubmitTo(_, _, _)
\* the first assignment with this id, teacher by teacher, gets the submission
SubmitTo(d, aid, new_submission) ==
    IF d = <<>> THEN <<>>
    ELSE LET i == FirstWithId(Head(d).v, aid)
         IN IF i = 0 THEN <<Head(d)>> \o SubmitTo(Tail(d), aid, new_submission)
            ELSE <<[k |-> Head(d).k,
                    v |-> [Head(d).v EXCEPT ![i].submissions =
                              StoreSubmission(@, new_submission)]]>> \o Tail(d)

\* a submission form that is offered for every assignment of the class
SubmittableWhateverStatus(submitted_status) == TRUE

\* submittable_assignments: Not Submitted, or Needs Revision
Submittable(submitted_status) == submitted_status \in {"Not Submitted", "Needs Revision"}

\* download_assignments_notes: "Submit Assignment" pressed
ParentSubmit(p, aid, text) ==
    LET student_info == Val(parent[p].logged_in_student)
        all == AllAssignments(assignmentsFile)
        i == FirstWithId(all, aid)
        new_submission == [id |-> nextId.sub, student_id |-> student_info.id,
                           submission_text |-> text, status |-> "Submitted",
                           grade |-> None, feedback |-> ""]
    IN
    /\ ParentDashboard(p)
    /\ i # 0
    /\ all[i].assigned_class = student_info.class
    /\ Submittable(SubmissionStatus(all[i], student_info.id))
    /\ nextId.sub <= MaxSubId
    /\ assignmentsFile' = SubmitTo(assignmentsFile, aid, new_submission)
    /\ exists' = exists \cup {"assignments"}
    /\ nextId' = [nextId EXCEPT !.sub = @ + 1]
    /\ UNCHANGED <<teachersFile, studentsFile, leaveFile, attendanceFile>>
    /\ Ran("", IF SubmissionStatus(all[i], student_info.id) = "Needs Revision"
               THEN "resubmitted" ELSE "submitted")
    /\ UNCHANGED <<admin, teacher, parent, authenticated>>
    /\ UNCHANGED <<default_value, codec, feeFile, timetableFile>>

(***************************************************************************)
(* Specification of the Assignments collection                             *)
(***************************************************************************)
SeededIds == 1..6

NextAssignments ==
    \/ \E a \in {"a1"} : AdminModuleInit(a)
    \/ \E t \in {"t1"} : TeacherModuleStart(t)
    \/ \E t \in {"t1"} : nextId.assign <= MaxAssignId /\ TeacherCreateAssignment(t, "Nursery")
    \/ \E t \in {"t1"}, aid \in 1..MaxAssignId, sid \in SeededIds, g \in GradeInputs,
          f \in FeedbackInputs, st \in {"Graded", "Needs Revision"} :
          TeacherGrade(t, aid, sid, g, f, st)
    \/ \E p \in {"p1"} : RegisterParent(p, AdmNo(1001), "Rao", "pw1", "pw1")
    \/ \E p \in {"p2"} : RegisterParent(p, AdmNo(1002), "Rao", "pw2", "pw2")
    \/ \E p \in {"p1"} : ParentLogin(p, AdmNo(1001), "pw1")
    \/ \E p \in {"p2"} : ParentLogin(p, AdmNo(1002), "pw2")
    \/ \E aid \in 1..MaxAssignId, txt \in TextInputs : ParentSubmit("p1", aid, txt)
    \/ \E aid \in 1..MaxAssignId : ParentSubmit("p2", aid, "final")

SpecAssignments == Init /\ [][NextAssignments]_vars

OneSubmissionPerStudent ==
    LET all == AllAssignments(assignmentsFile)
    IN \A i \in 1..Len(all) : \A j, k \in 1..Len(all[i].submissions) :
          j # k => all[i].submissions[j].student_id # all[i].submissions[k].student_id

\* the submissions of the assignment with this id
SubmissionsOf(d, aid) == AllAssignments(d)[FirstWithId(AllAssignments(d), aid)].submissions

\* a submit step for a pair that has a record keeps the number of records of
\* the assignment, puts the new text in the record of that student and
\* leaves the records of the other students alone
ResubmitReplaces ==
    \A p \in ParentSessions, aid \in 1..MaxAssignId, txt \in TextInputs :
       LET sid == Val(parent[p].logged_in_student).id
           old == SubmissionsOf(assignmentsFile, aid)
           new == SubmissionsOf(assignmentsFile', aid)
       IN ParentSubmit(p, aid, txt) /\ FirstOfStudent(old, sid) # 0
          => /\ Len(new) = Len(old)
             /\ \A j \in 1..Len(new) :
                   IF old[j].student_id = sid
                   THEN /\ new[j].student_id = sid
                        /\ new[j].submission_text = txt
                        /\ new[j].id \notin {old[k].id : k \in 1..Len(old)}
                        /\ new[j].status = "Submitted"
                   ELSE new[j] = old[j]

\* C5: an assignment never holds two submission records of one student, and
\* a second submission for the same (assignment, student) pair replaces the
\* earlier record, found by student id, with the second submission's fields
SubmissionReplacedPerStudent ==
    []OneSubmissionPerStudent /\ [][ResubmitReplaces]_vars

\* both children have a record for the assignment, and the last step
\* replaced one of them after the teacher asked for a revision
C5Witness ==
    /\ lastOp.note = "resubmitted"
    /\ \E i \in 1..Len(AllAssignments(assignmentsFile)) :
          Len(AllAssignments(assignmentsFile)[i].submissions) = 2

(***************************************************************************)
(* Attendance: saved by teachers, one partition per teacher, date, class   *)
(***************************************************************************)
DateInputs == {"2026-01-05"}
AttendanceOptions == {"Present", "Absent"}

\* get_students_by_class(class_name)
get_students_by_class(c) == GetOr(studentsFile, c, <<>>)

RosterIds(c) ==
    LET students == get_students_by_class(c)
    IN {students[i].id : i \in 1..Len(students)}

\* attendance_status: one entry per student of the class as it is now, in
\* the order of the class list, with the status chosen on the page
AttendanceStatus(c, choice) ==
    LET students == get_students_by_class(c)
    IN [i \in 1..Len(students) |-> [k |-> students[i].id, v |-> choice[students[i].id]]]

RECURSIVE UpdateDict(_, _)
\* dict.update: the entries of new put over those of old
UpdateDict(old, new) ==
    IF new = <<>> THEN old ELSE UpdateDict(Put(old, Head(new).k, Head(new).v), Tail(new))

\* the new map merged into the stored one
StorePartitionMerged(attendance_data, date, c, attendance_status) ==
    LET day == GetOr(attendance_data, date, EmptyDict)
    IN Put(attendance_data, date, Put(day, c, UpdateDict(GetOr(day, c, EmptyDict), attendance_status)))

\* attendance_data[selected_date][selected_class] = attendance_status
StorePartition(attendance_data, date, c, attendance_status) ==
    LET day == GetOr(attendance_data, date, EmptyDict)
    IN Put(attendance_data, date, Put(day, c, attendance_status))

\* the stored partition of a teacher, date and class ({} when there is none)
Partition(d, tid, date, c) == GetOr(GetOr(GetOr(d, tid, EmptyDict), date, EmptyDict), c, EmptyDict)

\* teachers/dashboard.py load_data(filename) without a second argument: the
\* parsed content of a file that holds a JSON document, else the dict bound
\* to the default_value parameter when the function was defined (the same
\* object at every call)
load_data(name, content) == IF name \in exists THEN content ELSE default_value

\* teacher_module, Attendance: "Save Attendance" pressed. all_data is the
\* loaded dict; when it is the default dict, all_data[str(teacher_id)] = ...
\* changes that dict
SaveAttendance(t, date, c, choice) ==
    LET tid == Val(teacher[t].teacher_id)
        all_data == load_data("attendance", attendanceFile)
        attendance_data == GetOr(all_data, tid, EmptyDict)
        attendance_status == AttendanceStatus(c, choice)
        before == Partition(all_data, tid, date, c)
        all_data2 == Put(all_data, tid, StorePartition(attendance_data, date, c, attendance_status))
    IN
    /\ TeacherDashboard(t)
    /\ "students" \in exists
    /\ attendanceFile' = all_data2
    /\ exists' = exists \cup {"attendance"}
    /\ default_value' = IF "attendance" \in exists THEN default_value ELSE all_data2
    /\ UNCHANGED <<teachersFile, studentsFile, leaveFile, assignmentsFile>>
    /\ Ran("", IF "attendance" \notin exists THEN "saved the default dict"
               ELSE IF Keys(before) \subseteq Keys(attendance_status) THEN "saved"
               ELSE "saved without a former student")
    /\ UNCHANGED <<admin, teacher, parent, nextId, authenticated>>
    /\ UNCHANGED <<codec, feeFile, timetableFile>>

(***************************************************************************)
(* Specification of the Attendance collection                              *)
(***************************************************************************)
\* the attendance page is used once the attendance file holds a document
NextAttendance ==
    \/ \E a \in {"a1"} : AdminModuleInit(a)
    \/ \E t \in TeacherSessions : TeacherModuleStart(t)
    \/ \E t \in {"t1"} : TeacherAddStudent(t, AdmNo(9001), <<"Asha", 0, "">>, "Nursery")
    \/ \E t \in {"t1"} : TeacherDeleteStudent(t, AdmNo(1001))
    \/ \E t \in TeacherSessions, date \in DateInputs, c \in {"Nursery"} :
          \E choice \in [RosterIds(c) -> AttendanceOptions] :
             "attendance" \in exists /\ SaveAttendance(t, date, c, choice)

SpecAttendance == Init /\ [][NextAttendance]_vars

\* the statuses recorded for a student on a date, over all teachers and classes
RecordedStatuses(student_id, date) ==
    {Get(Partition(attendanceFile, tid, date, c), student_id) :
        <<tid, c>> \in {x \in Keys(attendanceFile) \X {"Nursery"} :
                           Has(Partition(attendanceFile, x[1], date, x[2]), student_id)}}

\* C6: across the whole Attendance collection there is at most one recorded
\* status per student and date
OneStatusPerStudentAndDate ==
    \A student_id \in 1..MaxStudentId, date \in DateInputs :
        Cardinality(RecordedStatuses(student_id, date)) <= 1

\* C7: a save for a teacher, date and class leaves in that partition exactly
\* the submitted map: one entry per student of the submitted map with the
\* submitted status, and no entry of the earlier map that the new one lacks
SaveReplacesPartition ==
    [][\A t \in TeacherSessions, date \in DateInputs, c \in {"Nursery"} :
          \A choice \in [RosterIds(c) -> AttendanceOptions] :
             SaveAttendance(t, date, c, choice)
             => LET stored == Partition(attendanceFile', Val(teacher[t].teacher_id), date, c)
                IN /\ Keys(stored) = DOMAIN choice
                   /\ \A id \in DOMAIN choice : Get(stored, id) = choice[id]
                   /\ Len(stored) = Cardinality(DOMAIN choice)]_vars

\* a second save for the partition was made after a student of the first
\* save had left the class, and another had joined it
C7Witness ==
    /\ lastOp.note = "saved without a former student"
    /\ \E tid \in Keys(attendanceFile) :
          LET stored == Partition(attendanceFile, tid, "2026-01-05", "Nursery")
          IN /\ Len(stored) = 2
             /\ \E i \in 1..Len(stored) : stored[i].k > 6

(***************************************************************************)
(* management/dashboard.py: manage_teachers_admin; teacher profile         *)
(***************************************************************************)
EmailInputs == {"new@example.com"}

\* "Add Teacher" pressed in an admin session: works on the session's copy
AdminAddTeacher(a, username, password, is_admin) ==
    LET teachers == Val(admin[a].teachers)
        new == [id |-> nextId.teacher, username |-> username, password |-> hash_password(password),
                is_admin |-> is_admin, email |-> ""]
        teachers2 == Put(teachers, nextId.teacher, new)
    IN
    /\ AdminDashboard(a)
    /\ IF UsernameExists(teachers, username)
       THEN /\ UNCHANGED <<files, admin, nextId>>
            /\ Ran("Username already exists.", "")
       ELSE /\ nextId.teacher <= MaxTeacherId
            /\ admin' = [admin EXCEPT ![a].teachers = Some(teachers2)]
            /\ teachersFile' = teachers2
            /\ exists' = exists \cup {"teachers"}
            /\ nextId' = [nextId EXCEPT !.teacher = @ + 1]
            /\ UNCHANGED <<studentsFile, leaveFile, attendanceFile, assignmentsFile>>
            /\ Ran("", "")
    /\ UNCHANGED <<teacher, parent, authenticated>>
    /\ UNCHANGED <<default_value, codec, feeFile, timetableFile>>

\* "Save Changes" of the teacher edit form in an admin session
AdminEditTeacher(a, tid, email, is_admin) ==
    LET teachers == Val(admin[a].teachers)
        current_teacher == [Get(teachers, tid) EXCEPT !.email = email, !.is_admin = is_admin]
        teachers2 == Put(teachers, tid, current_teacher)
    IN
    /\ AdminDashboard(a)
    /\ Has(teachers, tid)
    /\ admin' = [admin EXCEPT ![a].teachers = Some(teachers2)]
    /\ teachersFile' = teachers2
    /\ exists' = exists \cup {"teachers"}
    /\ UNCHANGED <<studentsFile, leaveFile, attendanceFile, assignmentsFile, nextId>>
    /\ Ran("", "")
    /\ UNCHANGED <<teacher, parent, authenticated>>
    /\ UNCHANGED <<default_value, codec, feeFile, timetableFile>>

\* "Confirm Delete" of a teacher in an admin session
AdminDeleteTeacher(a, tid) ==
    LET teachers == Val(admin[a].teachers)
        teachers2 == Del(teachers, tid)
    IN
    /\ AdminDashboard(a)
    /\ Has(teachers, tid)
    /\ admin' = [admin EXCEPT ![a].teachers = Some(teachers2)]
    /\ teachersFile' = teachers2
    /\ exists' = exists \cup {"teachers"}
    /\ UNCHANGED <<studentsFile, leaveFile, attendanceFile, assignmentsFile, nextId>>
    /\ Ran("", "")
    /\ UNCHANGED <<teacher, parent, authenticated>>
    /\ UNCHANGED <<default_value, codec, feeFile, timetableFile>>

\* teacher_module, Profile: "Update" pressed: the session's own record is
\* changed and put into the freshly loaded file under the session's id
TeacherUpdateProfile(t, email) ==
    LET tid == Val(teacher[t].teacher_id)
        teacher_data == [Val(teacher[t].teacher_data) EXCEPT !.email = email]
    IN
    /\ TeacherDashboard(t)
    /\ "teachers" \in exists
    /\ teacher' = [teacher EXCEPT ![t].teacher_data = Some(teacher_data)]
    /\ teachersFile' = Put(teachersFile, tid, teacher_data)
    /\ UNCHANGED <<studentsFile, leaveFile, attendanceFile, assignmentsFile, exists>>
    /\ Ran("", "")
    /\ UNCHANGED <<admin, parent, nextId, authenticated>>
    /\ UNCHANGED <<default_value, codec, feeFile, timetableFile>>

(***************************************************************************)
(* Specification of the Teacher collection and of the sessions             *)
(***************************************************************************)
NextTeachers ==
    \/ \E a \in {"a1"} : AdminModuleInit(a)
    \/ \E a \in {"a1"} : RegisterAdmin(a, "admin", "pw1", "pw1")
    \/ \E a \in {"a1"} : AdminLogin(a, "admin", "pw1")
    \/ \E a \in {"a1"} : AdminLogout(a)
    \/ \E a \in {"a1"}, u \in Usernames : AdminAddTeacher(a, u, "pw1", FALSE)
    \/ \E a \in {"a1"}, tid \in 1..MaxTeacherId, e \in EmailInputs :
          AdminEditTeacher(a, tid, e, TRUE)
    \/ \E a \in {"a1"}, tid \in 1..MaxTeacherId : AdminDeleteTeacher(a, tid)
    \/ \E t \in TeacherSessions : TeacherModuleStart(t)
    \/ \E t \in {"t1"} : TeacherLogout(t)
    \/ \E t \in {"t1"}, e \in EmailInputs : TeacherUpdateProfile(t, e)
    \/ \E p \in {"p1"} : RegisterParent(p, AdmNo(1001), "Rao", "pw1", "pw1")
    \/ \E p \in {"p1"} : ParentLogin(p, AdmNo(1001), "pw1")
    \/ \E p \in {"p1"} : ParentLogout(p)

SpecTeachers == Init /\ [][NextTeachers]_vars

\* a run of the initialisation code: the module-level code of the admin
\* module, or the session start of the teacher module
InitialisationRun ==
    \/ \E a \in {"a1"} : AdminModuleInit(a)
    \/ \E t \in TeacherSessions : TeacherModuleStart(t)

\* C8: a run of the initialisation code leaves the records of every
\* collection that holds records as they are: seeding fires only on an
\* empty collection
SeedingOnlyWhenEmpty ==
    [][InitialisationRun
       => /\ teachersFile # EmptyDict => teachersFile' = teachersFile
          /\ studentsFile # EmptyDict => studentsFile' = studentsFile
          /\ leaveFile # EmptyDict => leaveFile' = leaveFile
          /\ attendanceFile # EmptyDict => attendanceFile' = attendanceFile
          /\ assignmentsFile # EmptyDict => assignmentsFile' = assignmentsFile]_vars

\* C9: no two records of the persisted Teacher collection share a username
UniqueUsernames ==
    \A i, j \in 1..Len(teachersFile) :
        i # j => teachersFile[i].v.username # teachersFile[j].v.username

\* C10: a session is past the gate of a role's dashboard only if it has
\* authenticated for that role since its last logout
DashboardOnlyWhenAuthenticated ==
    /\ \A a \in AdminSessions : AdminDashboard(a) => a \in authenticated
    /\ \A t \in TeacherSessions : TeacherDashboard(t) => t \in authenticated
    /\ \A p \in ParentSessions : ParentDashboard(p) => p \in authenticated

(***************************************************************************)
(* teacher_dashboard.py: the stand-alone teacher application               *)
(***************************************************************************)
RECURSIVE authenticate_user(_, _, _)
\* for teacher in teachers.values(): teacher['username'], teacher['password']
\* and teacher['id'] raise KeyError on a record without the key; 'password'
\* is read only when the username matches, 'id' only when both match
authenticate_user(teachers, username, password) ==
    IF teachers = <<>> THEN [raised |-> FALSE, id |-> None]
    ELSE LET t == Head(teachers).v
         IN IF "username" \notin DOMAIN t THEN [raised |-> TRUE, id |-> None]
            ELSE IF t.username # username THEN authenticate_user(Tail(teachers), username, password)
            ELSE IF "password" \notin DOMAIN t THEN [raised |-> TRUE, id |-> None]
            ELSE IF t.password # hash_password(password)
                 THEN authenticate_user(Tail(teachers), username, password)
            ELSE IF "id" \notin DOMAIN t THEN [raised |-> TRUE, id |-> None]
            ELSE [raised |-> FALSE, id |-> Some(t.id)]

\* register_teacher: the record is put into the freshly loaded file
register_teacher(teachers, id, username, password) ==
    Put(teachers, id, [id |-> id, username |-> username, password |-> hash_password(password),
                       is_admin |-> FALSE, email |-> ""])

\* login_page: "Login" pressed
StandaloneLogin(s, username, password) ==
    LET r == authenticate_user(teachersFile, username, password)
    IN
    /\ ~teacher[s].logged_in
    /\ IF r.raised
       THEN /\ UNCHANGED <<teacher, authenticated>>
            /\ Ran("KeyError", "")
       ELSE IF IsSet(r.id)
       THEN /\ teacher' = [teacher EXCEPT ![s].logged_in = TRUE, ![s].teacher_id = r.id]
            /\ authenticated' = authenticated \cup {s}
            /\ Ran("", "")
       ELSE /\ UNCHANGED <<teacher, authenticated>>
            /\ Ran("Invalid username or password", "")
    /\ UNCHANGED <<files, admin, parent, nextId>>
    /\ UNCHANGED <<default_value, codec, feeFile, timetableFile>>

\* login_page: "Register" pressed; the form is drawn only while the teacher
\* file holds no record
StandaloneRegister(s, username, password) ==
    /\ ~teacher[s].logged_in
    /\ teachersFile = EmptyDict
    /\ IF username = "" \/ password = ""
       THEN /\ UNCHANGED <<files, nextId>>
            /\ Ran("Please fill all required fields for registration.", "")
       ELSE /\ nextId.teacher <= MaxTeacherId
            /\ teachersFile' = register_teacher(teachersFile, nextId.teacher, username, password)
            /\ exists' = exists \cup {"teachers"}
            /\ nextId' = [nextId EXCEPT !.teacher = @ + 1]
            /\ UNCHANGED <<studentsFile, leaveFile, attendanceFile, assignmentsFile>>
            /\ Ran("", "")
    /\ UNCHANGED <<admin, teacher, parent, authenticated>>
    /\ UNCHANGED <<default_value, codec, feeFile, timetableFile>>

\* show(): the dashboard is rendered only past the logged_in check
StandaloneDashboard(s) == teacher[s].logged_in

\* sidebar "Logout": st.session_state.clear()
StandaloneLogout(s) ==
    /\ StandaloneDashboard(s)
    /\ teacher' = [teacher EXCEPT ![s] = TeacherFresh]
    /\ authenticated' = authenticated \ {s}
    /\ Ran("", "")
    /\ UNCHANGED <<files, admin, parent, nextId>>
    /\ UNCHANGED <<default_value, codec, feeFile, timetableFile>>

\* show(), Profile: "Update" pressed: teacher_data is the session's record
\* of the freshly loaded file, {} when the file has none under the session's id
StandaloneUpdateProfile(s, email) ==
    LET tid == Val(teacher[s].teacher_id)
        teacher_data == RecPut(GetOr(teachersFile, tid, <<>>), "email", email)
    IN
    /\ StandaloneDashboard(s)
    /\ teachersFile' = Put(teachersFile, tid, teacher_data)
    /\ exists' = exists \cup {"teachers"}
    /\ UNCHANGED <<studentsFile, leaveFile, attendanceFile, assignmentsFile>>
    /\ Ran("", IF Has(teachersFile, tid) THEN "" ELSE "profile of a missing record")
    /\ UNCHANGED <<admin, teacher, parent, nextId, authenticated>>
    /\ UNCHANGED <<default_value, codec, feeFile, timetableFile>>

(***************************************************************************)
(* Specification of authentication and registration of staff               *)
(***************************************************************************)
StaffUsernames == {"admin", "staff"}
\* the username and password typed into a login form
LoginInputs == {<<"admin", "pw1">>, <<"admin", "pw2">>, <<"staff", "pw1">>}

NextAuth ==
    \/ \E a \in {"a1"} : AdminModuleInit(a)
    \/ \E a \in {"a1"}, u \in {"admin", "staff", ""}, pw \in Passwords :
          RegisterAdmin(a, u, "pw1", pw)
    \/ \E a \in {"a1"}, in \in LoginInputs : AdminLogin(a, in[1], in[2])
    \/ \E a \in {"a1"} : AdminLogout(a)
    \/ \E a \in {"a1"}, tid \in 1..MaxTeacherId : AdminDeleteTeacher(a, tid)
    \/ \E s \in StandaloneSessions, u \in {"staff", ""} : StandaloneRegister(s, u, "pw1")
    \/ \E s \in StandaloneSessions, in \in LoginInputs : StandaloneLogin(s, in[1], in[2])
    \/ \E s \in StandaloneSessions : StandaloneLogout(s)
    \/ \E s \in StandaloneSessions, e \in EmailInputs : StandaloneUpdateProfile(s, e)

SpecAuth == Init /\ [][NextAuth]_vars

\* C11: an admin login opens a session, under the id of a record, only if
\* that record of the scanned Teacher collection has the given username, the
\* hash of the given password and is_admin true; on every other input the
\* lookup finds nothing, the login is refused and no admin session opens
AdminLoginOnlyForAdmins ==
    [][\A a \in AdminSessions, u \in StaffUsernames, pw \in Passwords :
          AdminLogin(a, u, pw)
          => LET teachers == Val(admin[a].teachers)
                 good(rec) == /\ "username" \in DOMAIN rec /\ rec.username = u
                              /\ "password" \in DOMAIN rec /\ rec.password = hash_password(pw)
                              /\ "is_admin" \in DOMAIN rec /\ rec.is_admin = TRUE
             IN IF \E i \in 1..Len(teachers) : good(teachers[i].v)
                THEN /\ admin'[a].admin_logged_in
                     /\ IsSet(admin'[a].admin_id)
                     /\ Has(teachers, Val(admin'[a].admin_id))
                     /\ good(Get(teachers, Val(admin'[a].admin_id)))
                ELSE /\ admin' = admin
                     /\ ~admin'[a].admin_logged_in
                     /\ authenticated' = authenticated
                     /\ lastOp'.msg = "Invalid admin username or password."]_vars

\* an admin exists, and the last login was made with the valid credentials
\* of a teacher who is no admin, and was refused
C11Witness ==
    /\ lastOp.note = "refused the credentials of a non-admin"
    /\ ~admin["a1"].admin_logged_in
    /\ HasAdmin(Val(admin["a1"].teachers))

(***************************************************************************)
(* Specification of parent accounts and parent login                       *)
(***************************************************************************)
ParentAdmInputs == {AdmNo(1001), AdmNo(1002), AdmNo(9001)}

NextParentAuth ==
    \/ \E a \in {"a1"} : AdminModuleInit(a)
    \/ \E t \in {"t1"} : TeacherModuleStart(t)
    \/ \E t \in {"t1"} : TeacherDeleteStudent(t, AdmNo(1001))
    \/ \E t \in {"t1"} : TeacherAddStudent(t, AdmNo(1001), <<"Asha", 0, "">>, "Nursery")
    \/ \E p \in {"p1"}, adm \in ParentAdmInputs, pw \in Passwords, confirm \in Passwords :
          RegisterParent(p, adm, "Rao", pw, confirm)
    \/ \E p \in {"p1"} : RegisterParent(p, AdmNo(1001), "", "pw1", "pw1")
    \/ \E p \in {"p1"}, adm \in ParentAdmInputs, pw \in Passwords : ParentLogin(p, adm, pw)
    \/ \E p \in {"p1"} : ParentLogout(p)

SpecParentAuth == Init /\ [][NextParentAuth]_vars

\* C12: a parent login gets a student record exactly when some student of
\* some class partition has the given admission number and a stored parent
\* password hash equal to the hash of the given password, and the record it
\* gets is such a student of the collection; with a wrong password, an unknown
\* admission number or a student without parent password the lookup finds
\* nothing and the login is refused
ParentLoginExactlyForMatchingStudent ==
    [][\A p \in ParentSessions, adm \in ParentAdmInputs, pw \in Passwords :
          ParentLogin(p, adm, pw)
          => LET all == AllStudents(studentsFile)
                 good(rec) == /\ rec.admission_no = adm
                              /\ rec.parent_password # None
                              /\ rec.parent_password = Some(hash_password(pw))
             IN IF \E i \in 1..Len(all) : good(all[i])
                THEN /\ parent'[p].parent_logged_in
                     /\ IsSet(parent'[p].logged_in_student)
                     /\ good(Val(parent'[p].logged_in_student))
                     /\ \E i \in 1..Len(all) : all[i] = Val(parent'[p].logged_in_student)
                ELSE /\ parent' = parent
                     /\ authenticated' = authenticated
                     /\ lastOp'.msg = "Invalid Admission Number or password."]_vars

\* the parent of ADM1002 is logged in with the student's record, a login for
\* it with the other password is impossible, and ADM1001, deleted and added
\* again, is in the collection without a parent password
C12Witness ==
    /\ parent["p1"].parent_logged_in
    /\ Val(parent["p1"].logged_in_student).admission_no = AdmNo(1002)
    /\ authenticate_parent(studentsFile, AdmNo(1002), "pw1") # None
    /\ authenticate_parent(studentsFile, AdmNo(1002), "pw2") = None
    /\ AdmissionExists(studentsFile, AdmNo(1001))
    /\ FindByAdmission(studentsFile, AdmNo(1001)).id > 6
    /\ authenticate_parent(studentsFile, AdmNo(1001), "pw1") = None

(***************************************************************************)
(* Specification of admin self-registration from two browser sessions      *)
(***************************************************************************)
\* the username typed in each session
RegistrationInputs == {<<"a1", "admin">>, <<"a1", "">>, <<"a2", "staff">>, <<"a2", "admin">>}

NextRegistration ==
    \/ \E a \in AdminSessions : AdminModuleInit(a)
    \/ \E in \in RegistrationInputs, confirm \in Passwords :
          RegisterAdmin(in[1], in[2], "pw1", confirm)
    \/ \E a \in AdminSessions, in \in LoginInputs : AdminLogin(a, in[1], in[2])
    \/ \E s \in StandaloneSessions : StandaloneRegister(s, "staff", "pw1")

SpecRegistration == Init /\ [][NextRegistration]_vars

\* a registration step that stored a new record
RegistrationSucceeds(a, u) ==
    /\ \E confirm \in Passwords : RegisterAdmin(a, u, "pw1", confirm)
    /\ nextId'.teacher = nextId.teacher + 1

\* C13: the record stored by a successful admin self-registration has
\* is_admin true exactly when no record of the persisted Teacher collection
\* had is_admin true when the registration was made
FirstRegistrationOnlyIsAdmin ==
    [][\A a \in AdminSessions, u \in StaffUsernames :
          RegistrationSucceeds(a, u)
          => (Get(teachersFile', nextId.teacher).is_admin <=> ~HasAdmin(teachersFile))]_vars

(***************************************************************************)
(* Removal of teacher records                                              *)
(***************************************************************************)
\* C15: a record of the persisted Teacher collection is absent after a step
\* only if the step is an admin's delete of that record
TeacherRemovedOnlyByDelete ==
    [][\A tid \in Keys(teachersFile) :
          tid \notin Keys(teachersFile') => \E a \in AdminSessions : AdminDeleteTeacher(a, tid)]_vars

(***************************************************************************)
(* Failed writes of save_data                                              *)
(***************************************************************************)
\* what open(filename, 'w') and json.dump leave behind when they raise
\* OSError: "denied" is open() refused (the file is untouched), "truncated"
\* is a write that failed after open() emptied the file (a later load_data
\* finds no JSON document and returns {})
WriteOutcomes == {"denied", "truncated"}

\* "Add Student" pressed in an admin session, with save_data raising OSError:
\* the record was appended to the session's copy before save_data was
\* called; the exception ends the run in app.py's handler
AdminAddStudentWriteFails(a, adm, name, c, outcome) ==
    LET cache == student_data(a)
        cache2 == AddStudentTo(cache, nextId.student, adm, name, c)
    IN
    /\ AdminDashboard(a)
    /\ ~AdmissionExists(cache, adm)
    /\ nextId.student <= MaxStudentId
    /\ admin' = [admin EXCEPT ![a].students = Some(cache2)]
    /\ IF outcome = "denied"
       THEN UNCHANGED <<studentsFile, exists>>
       ELSE /\ studentsFile' = EmptyDict
            /\ exists' = exists \ {"students"}
    /\ nextId' = [nextId EXCEPT !.student = @ + 1]
    /\ Ran("Application error", "save_data raised OSError")
    /\ UNCHANGED <<teachersFile, leaveFile, attendanceFile, assignmentsFile>>
    /\ UNCHANGED <<teacher, parent, authenticated>>
    /\ UNCHANGED <<default_value, codec, feeFile, timetableFile>>

NextFailures ==
    \/ \E a \in AdminSessions : AdminModuleInit(a)
    \/ \E a \in AdminSessions : RegisterAdmin(a, "admin", "pw1", "pw1")
    \/ \E a \in AdminSessions : AdminLogin(a, "admin", "pw1")
    \/ \E a \in AdminSessions : AdminLogout(a)
    \/ \E a \in {"a1"}, adm \in AdmInputs, n \in NameInputs, c \in {"Grade 1A"} :
          AdminAddStudent(a, adm, n, c)
    \/ \E a \in {"a1"}, adm \in AdmInputs, n \in NameInputs, c \in {"Grade 1A"}, o \in WriteOutcomes :
          AdminAddStudentWriteFails(a, adm, n, c, o)

SpecFailures == Init /\ [][NextFailures]_vars

\* C16: an add-student operation whose save_data fails is reported as failed
\* and leaves the session's cached Student collection as it was before
FailedWriteLeavesCacheUnchanged ==
    [][\A a \in AdminSessions, adm \in AdmInputs, n \in NameInputs, o \in WriteOutcomes :
          AdminAddStudentWriteFails(a, adm, n, "Grade 1A", o)
          => /\ lastOp'.msg = "Application error"
             /\ admin'[a].students = admin[a].students]_vars

(***************************************************************************)
(* Validation of the registration and add forms                            *)
(***************************************************************************)
NextValidation ==
    \/ \E a \in {"a1"} : AdminModuleInit(a)
    \/ \E a \in {"a1"}, u \in {"admin", ""}, confirm \in Passwords : RegisterAdmin(a, u, "pw1", confirm)
    \/ \E a \in {"a1"} : AdminLogin(a, "admin", "pw1")
    \/ \E a \in {"a1"} : AdminLogout(a)
    \/ \E a \in {"a1"}, u \in StaffUsernames : AdminAddTeacher(a, u, "pw1", FALSE)
    \/ \E a \in {"a1"}, adm \in AdmInputs \cup {EmptyInput}, n \in NameInputs :
          AdminAddStudent(a, adm, n, "Grade 1A")
    \/ \E t \in {"t1"} : TeacherModuleStart(t)
    \/ \E t \in {"t1"}, adm \in AdmInputs \cup {EmptyInput}, n \in NameInputs :
          TeacherAddStudent(t, adm, n, "Grade 1A")
    \/ \E p \in {"p1"}, confirm \in Passwords : RegisterParent(p, AdmNo(1001), "Rao", "pw1", confirm)

SpecValidation == Init /\ [][NextValidation]_vars

\* the messages of the validation branches
ValidationMessages ==
    {"Please fill all required fields (*)", "Passwords do not match.",
     "Username already exists.", "Admission Number already exists.",
     "A parent account already exists."}

\* the step showed a validation message and changed no file, no session and
\* no id
Rejected ==
    /\ lastOp'.msg \in ValidationMessages
    /\ UNCHANGED <<files, admin, teacher, parent, nextId>>

\* the username is the username of a record of the dict
UsernameTaken(teachers, u) ==
    \E tid \in Keys(teachers) : Get(teachers, tid).username = u

AuthenticationNeverRaises ==
    \A in \in LoginInputs : ~authenticate_user(teachersFile, in[1], in[2]).raised

(***************************************************************************)
(* The default of the teacher module's load_data                           *)
(***************************************************************************)
\* "Save Attendance" pressed, with save_data raising OSError: when the loaded
\* dict is the default dict it was changed before save_data was called
SaveAttendanceWriteFails(t, date, c, choice, outcome) ==
    LET tid == Val(teacher[t].teacher_id)
        all_data == load_data("attendance", attendanceFile)
        attendance_data == GetOr(all_data, tid, EmptyDict)
        all_data2 == Put(all_data, tid, StorePartition(attendance_data, date, c, AttendanceStatus(c, choice)))
    IN
    /\ TeacherDashboard(t)
    /\ "students" \in exists
    /\ default_value' = IF "attendance" \in exists THEN default_value ELSE all_data2
    /\ IF outcome = "denied"
       THEN UNCHANGED <<attendanceFile, exists>>
       ELSE /\ attendanceFile' = EmptyDict
            /\ exists' = exists \ {"attendance"}
    /\ UNCHANGED <<teachersFile, studentsFile, leaveFile, assignmentsFile>>
    /\ Ran("Application error", "save_data raised OSError")
    /\ UNCHANGED <<admin, teacher, parent, nextId, authenticated>>
    /\ UNCHANGED <<codec, feeFile, timetableFile>>

\* the module-level code of the admin module has run through in some
\* session: app.py imports it before it shows any dashboard
ManagementImported == \E a \in AdminSessions : AdminReady(a)

\* the teacher dashboard behind app.py, with writes that can fail
NextDefaults ==
    \/ \E a \in {"a1"} : AdminModuleInit(a)
    \/ \E t \in TeacherSessions : ManagementImported /\ TeacherModuleStart(t)
    \/ \E t \in TeacherSessions, date \in DateInputs, c \in {"Nursery"} :
          \E choice \in [RosterIds(c) -> {"Present", "Absent"}] :
             ManagementImported /\ SaveAttendance(t, date, c, choice)
    \/ \E t \in {"t1"}, date \in DateInputs, c \in {"Nursery"}, o \in WriteOutcomes :
          \E choice \in [RosterIds(c) -> {"Present"}] :
             ManagementImported /\ SaveAttendanceWriteFails(t, date, c, choice, o)

SpecDefaults == Init /\ [][NextDefaults]_vars

\* the collections of the model
CollectionNames == {"teachers", "students", "leave", "attendance", "assignments"}

\* C19: load_data without a second argument returns the empty mapping for a
\* collection whose file is missing, empty or unparseable, whatever ran
\* before
LoadOfAbsentCollectionReturnsEmpty ==
    \A name \in CollectionNames \ exists : load_data(name, EmptyDict) = EmptyDict

(***************************************************************************)
(* json.dump / json.load: the codec of save_data and load_data             *)
(***************************************************************************)
\* Python values: the type and the value
TypeOf(x) == x[1]
Payload(x) == x[2]
PyStr(s) == <<"str", s>>
PyInt(n) == <<"int", n>>
\* a finite float, in tenths (0.0 is PyFloat(0))
PyFloat(n) == <<"float", n>>
PyBool(b) == <<"bool", b>>
PyNone == <<"NoneType", "None">>
PyList(items) == <<"list", items>>
\* a dict: entries [k, v] in insertion order, keys pairwise different
PyDict(entries) == <<"dict", entries>>

\* a token of the JSON text (white space, which indent=2 adds, is no token)
Tok(kind, text) == <<kind, text>>

\* a JSON encoder that writes None the way str() prints it
EncodeAtomWithStr(x) ==
    IF TypeOf(x) = "str" THEN Tok("string", Payload(x))
    ELSE IF TypeOf(x) = "int" THEN Tok("int", Payload(x))
    ELSE IF TypeOf(x) = "float" THEN Tok("float", Payload(x))
    ELSE IF TypeOf(x) = "bool" THEN Tok("literal", IF Payload(x) THEN "true" ELSE "false")
    ELSE Tok("string", "None")

\* json.dump of a str, int, float, bool or None
EncodeAtom(x) ==
    IF TypeOf(x) = "str" THEN Tok("string", Payload(x))
    ELSE IF TypeOf(x) = "int" THEN Tok("int", Payload(x))
    ELSE IF TypeOf(x) = "float" THEN Tok("float", Payload(x))
    ELSE IF TypeOf(x) = "bool" THEN Tok("literal", IF Payload(x) THEN "true" ELSE "false")
    ELSE Tok("literal", "null")

\* json.dump of a dict key: a str key as it is, an int, bool or None key as
\* the text of its JSON form
EncodeKey(k) ==
    IF TypeOf(k) = "str" THEN Tok("string", Payload(k))
    ELSE IF TypeOf(k) = "int" THEN Tok("string", ToString(Payload(k)))
    ELSE IF TypeOf(k) = "bool" THEN Tok("string", IF Payload(k) THEN "true" ELSE "false")
    ELSE Tok("string", "null")

RECURSIVE dumps(_)
RECURSIVE DumpItems(_)
RECURSIVE DumpMembers(_)
\* json.dump(data, f, indent=2): the tokens written
dumps(x) ==
    IF TypeOf(x) = "list" THEN <<Tok("[", "")>> \o DumpItems(Payload(x)) \o <<Tok("]", "")>>
    ELSE IF TypeOf(x) = "dict" THEN <<Tok("{", "")>> \o DumpMembers(Payload(x)) \o <<Tok("}", "")>>
    ELSE <<EncodeAtom(x)>>
DumpItems(items) ==
    IF items = <<>> THEN <<>>
    ELSE dumps(Head(items))
         \o (IF Tail(items) = <<>> THEN <<>> ELSE <<Tok(",", "")>> \o DumpItems(Tail(items)))
DumpMembers(entries) ==
    IF entries = <<>> THEN <<>>
    ELSE <<EncodeKey(Head(entries).k), Tok(":", "")>> \o dumps(Head(entries).v)
         \o (IF Tail(entries) = <<>> THEN <<>> ELSE <<Tok(",", "")>> \o DumpMembers(Tail(entries)))

\* json.load of one token that is a value by itself
DecodeAtom(tok) ==
    IF tok[1] = "string" THEN PyStr(tok[2])
    ELSE IF tok[1] = "int" THEN PyInt(tok[2])
    ELSE IF tok[1] = "float" THEN PyFloat(tok[2])
    ELSE IF tok[2] = "true" THEN PyBool(TRUE)
    ELSE IF tok[2] = "false" THEN PyBool(FALSE)
    ELSE PyNone

\* the dict with the member added: a key that is already there keeps its
\* place and gets the new value
AddMember(entries, key, value) ==
    IF \E i \in 1..Len(entries) : entries[i].k = key
    THEN [i \in 1..Len(entries) |-> IF entries[i].k = key THEN [k |-> key, v |-> value] ELSE entries[i]]
    ELSE Append(entries, [k |-> key, v |-> value])

RECURSIVE ParseValue(_)
RECURSIVE ParseItems(_, _)
RECURSIVE ParseMembers(_, _)
\* the value that starts at the head of the tokens, and the tokens after it
ParseValue(toks) ==
    IF Head(toks)[1] = "["
    THEN IF Head(Tail(toks))[1] = "]" THEN [val |-> PyList(<<>>), rest |-> Tail(Tail(toks))]
         ELSE ParseItems(Tail(toks), <<>>)
    ELSE IF Head(toks)[1] = "{"
    THEN IF Head(Tail(toks))[1] = "}" THEN [val |-> PyDict(<<>>), rest |-> Tail(Tail(toks))]
         ELSE ParseMembers(Tail(toks), <<>>)
    ELSE [val |-> DecodeAtom(Head(toks)), rest |-> Tail(toks)]
\* the items of an array after "[" or ",", up to and including "]"
ParseItems(toks, items) ==
    LET r == ParseValue(toks)
        items2 == Append(items, r.val)
    IN IF Head(r.rest)[1] = ","
       THEN ParseItems(Tail(r.rest), items2)
       ELSE [val |-> PyList(items2), rest |-> Tail(r.rest)]
\* the members of an object after "{" or ",", up to and including "}"
ParseMembers(toks, entries) ==
    LET key == PyStr(Head(toks)[2])
        r == ParseValue(Tail(Tail(toks)))
        entries2 == AddMember(entries, key, r.val)
    IN IF Head(r.rest)[1] = ","
       THEN ParseMembers(Tail(r.rest), entries2)
       ELSE [val |-> PyDict(entries2), rest |-> Tail(r.rest)]

\* json.load(f) / json.loads(content) of a text that json.dump wrote
loads(toks) == ParseValue(toks).val

\* field values of a record
FieldValues == {PyStr("Asha"), PyStr(""), PyInt(0), PyInt(85), PyFloat(0), PyBool(TRUE), PyBool(FALSE), PyNone}

\* records: dicts with str keys
RecordValues ==
    {PyDict(<<>>)} \cup
    {PyDict(<<[k |-> PyStr("id"), v |-> PyStr("1")], [k |-> PyStr("grade"), v |-> x]>>) : x \in FieldValues}

\* the longest list of records per partition
MaxListLen == 2

\* collections: a mapping from ids to records, or from partition keys to
\* lists of records
ValidCollections ==
    {PyDict(<<>>)} \cup
    {PyDict(<<[k |-> PyStr("1"), v |-> r]>>) : r \in RecordValues} \cup
    {PyDict(<<[k |-> PyStr("1"), v |-> r], [k |-> PyStr("2"), v |-> PyDict(<<>>)]>>) : r \in RecordValues} \cup
    {PyDict(<<[k |-> PyStr("Nursery"), v |-> PyList(l)]>>) :
        l \in UNION {[1..n -> RecordValues] : n \in 0..MaxListLen}}

\* dicts that json.dump accepts and that are no collections: a key that is
\* no str
OtherDicts ==
    {PyDict(<<[k |-> key, v |-> PyDict(<<>>)]>>) : key \in {PyInt(1), PyBool(TRUE), PyNone}}

CodecInputs == ValidCollections \cup OtherDicts

RECURSIVE IsJsonShaped(_)
\* every dict in the value has str keys only
IsJsonShaped(x) ==
    IF TypeOf(x) = "list" THEN \A i \in 1..Len(Payload(x)) : IsJsonShaped(Payload(x)[i])
    ELSE IF TypeOf(x) = "dict"
    THEN \A i \in 1..Len(Payload(x)) : TypeOf(Payload(x)[i].k) = "str" /\ IsJsonShaped(Payload(x)[i].v)
    ELSE TRUE

\* a mapping with str keys whose values are records or lists of records
IsValidCollection(x) ==
    /\ TypeOf(x) = "dict"
    /\ IsJsonShaped(x)
    /\ \A i \in 1..Len(Payload(x)) :
          \/ TypeOf(Payload(x)[i].v) = "dict"
          \/ TypeOf(Payload(x)[i].v) = "list" /\ \A j \in 1..Len(Payload(Payload(x)[i].v)) : TypeOf(Payload(Payload(x)[i].v)[j]) = "dict"

\* save_data(data, filename)
CodecSave ==
    /\ IsSet(codec.value) /\ ~IsSet(codec.text)
    /\ codec' = [codec EXCEPT !.text = Some(dumps(Val(codec.value)))]
    /\ UNCHANGED <<files, admin, teacher, parent, nextId, default_value, authenticated, lastOp>>
    /\ UNCHANGED <<feeFile, timetableFile>>

\* load_data(filename) of the file just written
CodecLoad ==
    /\ IsSet(codec.text) /\ ~IsSet(codec.loaded)
    /\ codec' = [codec EXCEPT !.loaded = Some(loads(Val(codec.text)))]
    /\ UNCHANGED <<files, admin, teacher, parent, nextId, default_value, authenticated, lastOp>>
    /\ UNCHANGED <<feeFile, timetableFile>>

\* one value to save, out of CodecInputs
InitCodec == InitStore /\ codec \in {[CodecIdle EXCEPT !.value = Some(c)] : c \in CodecInputs}

NextCodec == CodecSave \/ CodecLoad

SpecCodec == InitCodec /\ [][NextCodec]_vars

\* C20: a valid collection value that was saved and loaded again comes back
\* equal to the value saved
LoadOfSaveIsIdentity ==
    IsSet(codec.loaded) /\ IsValidCollection(Val(codec.value))
    => Val(codec.loaded) = Val(codec.value)

\* a partition with two different records, one with a None field, was saved
\* and loaded
C20Witness ==
    /\ IsSet(codec.loaded)
    /\ Val(codec.value) = PyDict(<<[k |-> PyStr("Nursery"),
                                    v |-> PyList(<<PyDict(<<[k |-> PyStr("id"), v |-> PyStr("1")],
                                                            [k |-> PyStr("grade"), v |-> PyNone]>>),
                                                    PyDict(<<[k |-> PyStr("id"), v |-> PyStr("1")],
                                                            [k |-> PyStr("grade"), v |-> PyInt(85)]>>)>>)]>>)
    /\ Val(codec.loaded) = Val(codec.value)


(***************************************************************************)
(* C21: grading touches one submission                                     *)
(***************************************************************************)
NextGrading ==
    \/ \E a \in {"a1"} : AdminModuleInit(a)
    \/ \E t \in {"t1"} : TeacherModuleStart(t)
    \/ \E t \in {"t1"} :
          nextId.assign <= MaxGradingAssignId /\ TeacherCreateAssignment(t, "Nursery")
    \/ \E t \in {"t1"}, aid \in 1..MaxGradingAssignId, sid \in SeededIds, g \in GradeInputs,
          f \in FeedbackInputs : TeacherGrade(t, aid, sid, g, f, "Graded")
    \/ \E p \in {"p1"} : RegisterParent(p, AdmNo(1001), "Rao", "pw1", "pw1")
    \/ \E p \in {"p2"} : RegisterParent(p, AdmNo(1002), "Rao", "pw2", "pw2")
    \/ \E p \in {"p1"} : ParentLogin(p, AdmNo(1001), "pw1")
    \/ \E p \in {"p2"} : ParentLogin(p, AdmNo(1002), "pw2")
    \/ \E aid \in 1..MaxGradingAssignId : ParentSubmit("p1", aid, "final")
    \/ \E aid \in 1..MaxGradingAssignId : ParentSubmit("p2", aid, "final")

SpecGrading == Init /\ [][NextGrading]_vars

\* the teachers of an assignments dict, in the order of the file
AssignmentKeys(d) == [n \in 1..Len(d) |-> d[n].k]

\* what a graded submission keeps: everything but grade, feedback and status
GradedFrom(before, after, grade, feedback, status) ==
    after = [before EXCEPT !.grade = grade, !.feedback = feedback, !.status = status]

\* C21: a grading of the submission of (assignment, student) sets grade,
\* feedback and status of that submission in place; every other submission
\* of the assignment and every other assignment of the collection, of this
\* and of every other teacher, is the same after the step as before it.
GradingChangesOnlyThatSubmission ==
    [][\A t \in TeacherSessions, aid \in 1..MaxGradingAssignId, sid \in SeededIds,
          g \in GradeInputs, f \in FeedbackInputs, st \in GradeStatusOptions :
          TeacherGrade(t, aid, sid, g, f, st) =>
            LET before == AllAssignments(assignmentsFile)
                after == AllAssignments(assignmentsFile')
            IN /\ AssignmentKeys(assignmentsFile') = AssignmentKeys(assignmentsFile)
               /\ \A n \in 1..Len(assignmentsFile) :
                     Len(assignmentsFile'[n].v) = Len(assignmentsFile[n].v)
               /\ Len(after) = Len(before)
               /\ \A n \in 1..Len(before) :
                     /\ after[n].id = before[n].id
                     /\ after[n].assigned_class = before[n].assigned_class
                     /\ Len(after[n].submissions) = Len(before[n].submissions)
                     /\ \A m \in 1..Len(before[n].submissions) :
                           IF before[n].id = aid /\ before[n].submissions[m].student_id = sid
                           THEN GradedFrom(before[n].submissions[m],
                                           after[n].submissions[m], g, f, st)
                           ELSE after[n].submissions[m] = before[n].submissions[m]]_vars

\* a graded submission beside an ungraded one of the same assignment and a
\* second assignment that holds a submission of its own
C21Witness ==
    LET all == AllAssignments(assignmentsFile)
    IN /\ Len(all) = 2
       /\ Len(all[1].submissions) = 2
       /\ all[1].submissions[1].status = "Graded"
       /\ all[1].submissions[1].grade = Some(5)
       /\ all[1].submissions[2].status = "Submitted"
       /\ all[1].submissions[2].grade = None
       /\ Len(all[2].submissions) = 1
       /\ all[2].submissions[1].status = "Submitted"

(***************************************************************************)
(* C22: the admin session's copies are filled from the files once          *)
(***************************************************************************)
NextCache ==
    \/ \E a \in {"a1"} : AdminModuleInit(a)
    \/ \E a \in {"a1"} : RegisterAdmin(a, "admin", "pw1", "pw1")
    \/ \E a \in {"a1"} : AdminLogin(a, "admin", "pw1")
    \/ \E a \in {"a1"} : AdminLogout(a)
    \/ \E a \in {"a1"}, n \in NameInputs : AdminAddStudent(a, AdmNo(9001), n, "Grade 1A")
    \/ \E a \in {"a1"}, lid \in 1..MaxLeaveId, c \in CommentInputs :
          AdminUpdateLeaveStatus(a, lid, "Approved", c)
    \/ \E t \in {"t1"} : TeacherModuleStart(t)
    \/ \E t \in {"t1"}, n \in NameInputs : TeacherAddStudent(t, AdmNo(9002), n, "Grade 1A")
    \/ \E t \in {"t1"} : TeacherApplyLeave(t)

SpecCache == Init /\ [][NextCache]_vars

\* the ids of the student records of a students dict
StudentIds(d) == {AllStudents(d)[i].id : i \in 1..Len(AllStudents(d))}

\* the ids a step has drawn from uuid4
FreshIds(kind) == nextId[kind]..(nextId'[kind] - 1)

\* C22: module-level code fills a collection's session copy from the file
\* only while the session holds no copy of it; from then on, until Logout
\* clears the session, the copy holds no record that was not in it before
\* or was created by the step itself, whatever other sessions have written
\* to the file.
CollectionReadOncePerSession ==
    [][\A a \in AdminSessions :
          /\ AdminModuleInit(a) =>
                /\ IsSet(admin[a].teachers) => admin'[a].teachers = admin[a].teachers
                /\ IsSet(admin[a].students) => admin'[a].students = admin[a].students
                /\ IsSet(admin[a].leave_data) => admin'[a].leave_data = admin[a].leave_data
          /\ IsSet(admin[a].teachers) /\ IsSet(admin'[a].teachers) =>
                Keys(Val(admin'[a].teachers)) \subseteq
                   Keys(Val(admin[a].teachers)) \cup FreshIds("teacher")
          /\ IsSet(admin[a].students) /\ IsSet(admin'[a].students) =>
                StudentIds(Val(admin'[a].students)) \subseteq
                   StudentIds(Val(admin[a].students)) \cup FreshIds("student")
          /\ IsSet(admin[a].leave_data) /\ IsSet(admin'[a].leave_data) =>
                LeaveIds(Val(admin'[a].leave_data)) \subseteq
                   LeaveIds(Val(admin[a].leave_data)) \cup FreshIds("leave")]_vars

\* the session has saved its copy of the Student collection, without the
\* student a teacher added after the copy was read, and its copy of the
\* Leave collection still lacks the leave a teacher has applied for
C22Witness ==
    /\ IsSet(admin["a1"].students) /\ IsSet(admin["a1"].leave_data)
    /\ AdmissionExists(Val(admin["a1"].students), AdmNo(9001))
    /\ ~AdmissionExists(Val(admin["a1"].students), AdmNo(9002))
    /\ lastOp.note = "saved over the records of another session"
    /\ LeaveIds(leaveFile) # {}
    /\ LeaveIds(Val(admin["a1"].leave_data)) = {}

(***************************************************************************)
(* C23: a parent submit replaces a submission only when it needs revision  *)
(***************************************************************************)
\* C23: a parent submit leaves every persisted submission whose status is
\* Submitted or Graded where it is and as it is, grade and feedback
\* included; only a submission with status Needs Revision is replaced.
SubmitKeepsSubmittedAndGraded ==
    [][\A p \in ParentSessions, aid \in 1..MaxAssignId, txt \in TextInputs :
          ParentSubmit(p, aid, txt) =>
            LET before == AllAssignments(assignmentsFile)
                after == AllAssignments(assignmentsFile')
            IN /\ Len(after) = Len(before)
               /\ \A n \in 1..Len(before) :
                     /\ Len(after[n].submissions) >= Len(before[n].submissions)
                     /\ \A m \in 1..Len(before[n].submissions) :
                           \/ after[n].submissions[m] = before[n].submissions[m]
                           \/ /\ before[n].submissions[m].status = "Needs Revision"
                              /\ before[n].id = aid
                              /\ before[n].submissions[m].student_id =
                                    Val(parent[p].logged_in_student).id]_vars

\* one child's graded submission is still there with its grade and feedback
\* right after the other child's submission was replaced on a revision
C23Witness ==
    /\ lastOp.note = "resubmitted"
    /\ \E i \in 1..Len(AllAssignments(assignmentsFile)) :
          LET subs == AllAssignments(assignmentsFile)[i].submissions
          IN \E j, k \in 1..Len(subs) :
                /\ subs[j].status = "Graded" /\ subs[j].grade = Some(5)
                /\ subs[j].feedback = "redo"
                /\ subs[k].status = "Submitted" /\ subs[k].grade = None

(***************************************************************************)
(* C24: one parent account per admission number                            *)
(***************************************************************************)
\* C24: a parent registration for an admission number whose student has a
\* parent password, or that no student of the collection has, is rejected
\* with a message and leaves the Student collection, the stored parent
\* password and parent fields included, as it was.
ParentRegisteredOncePerAdmission ==
    [][\A p \in ParentSessions, adm \in ParentAdmInputs, pname \in {"Rao", ""},
          pw \in Passwords, confirm \in Passwords :
          RegisterParent(p, adm, pname, pw, confirm) =>
             IF ~AdmissionExists(studentsFile, adm)
                \/ IsSet(FindByAdmission(studentsFile, adm).parent_password)
             THEN /\ studentsFile' = studentsFile
                  /\ exists' = exists
                  /\ lastOp'.msg # ""
             ELSE studentsFile' # studentsFile =>
                     /\ pw = confirm
                     /\ FindByAdmission(studentsFile', adm).parent_password =
                           Some(hash_password(pw))]_vars

\* the student has the parent name and password of the first registration,
\* and the last step was a further registration for it that was turned down
C24Witness ==
    /\ AdmissionExists(studentsFile, AdmNo(1001))
    /\ FindByAdmission(studentsFile, AdmNo(1001)).parent_password = Some(hash_password("pw1"))
    /\ FindByAdmission(studentsFile, AdmNo(1001)).parent_name = Some("Rao")
    /\ lastOp.msg = "A parent account already exists."

(***************************************************************************)
(* C25: a registered parent's login and the other sessions                 *)
(***************************************************************************)
\* C25: when authenticate_parent finds a student for an admission number
\* and a password, it finds that student for them after every step of
\* every session that leaves a student with that id in the collection.
ParentLoginSurvivesOtherSessions ==
    [][\A adm \in ParentAdmInputs, pw \in Passwords :
          LET before == authenticate_parent(studentsFile, adm, pw)
              after == authenticate_parent(studentsFile', adm, pw)
          IN IsSet(before) /\ Val(before).id \in StudentIds(studentsFile')
             => IsSet(after) /\ Val(after).id = Val(before).id]_vars

(***************************************************************************)
(* Python floats (IEEE 754 binary64) of the fee amounts                     *)
(*                                                                         *)
(* A natural number of any size is a sequence of limbs below 2^15, least   *)
(* significant limb first, without a 0 as last limb.  A float is           *)
(* <<sign, exponent, mantissa>> with a mantissa of 53 bits and the value   *)
(* sign * mantissa * 2^exponent; 0.0 is <<0, 0, <<>>>>.  The amounts of    *)
(* the model stay far from the subnormal and the overflow range.           *)
(***************************************************************************)
MantissaBits == 53    \* bits of the significand of a Python float
LimbBits == 15        \* bits of one limb of the naturals the significands are computed with
Limb == 2^LimbBits

\* limb i of a, 0 outside a
BnLimb(a, i) == IF i >= 1 /\ i <= Len(a) THEN a[i] ELSE 0

BnTrim(a) ==
    LET used == {i \in 1..Len(a) : a[i] # 0}
    IN IF used = {} THEN <<>>
       ELSE SubSeq(a, 1, CHOOSE i \in used : \A j \in used : j <= i)

\* a natural below 2^30
BnFromNat(n) == BnTrim(<<n % Limb, n \div Limb>>)

\* a + b: the carry into limb i comes from a limb below that overflows and
\* runs through limbs that sum to Limb - 1
BnAdd(a, b) ==
    LET n == (IF Len(a) > Len(b) THEN Len(a) ELSE Len(b)) + 1
        carry(i) == IF \E j \in 1..(i - 1) :
                          /\ BnLimb(a, j) + BnLimb(b, j) >= Limb
                          /\ \A k \in (j + 1)..(i - 1) : BnLimb(a, k) + BnLimb(b, k) = Limb - 1
                    THEN 1 ELSE 0
    IN BnTrim([i \in 1..n |-> (BnLimb(a, i) + BnLimb(b, i) + carry(i)) % Limb])

\* a - b for a >= b
BnSub(a, b) ==
    LET borrow(i) == IF \E j \in 1..(i - 1) :
                           /\ BnLimb(a, j) < BnLimb(b, j)
                           /\ \A k \in (j + 1)..(i - 1) : BnLimb(a, k) = BnLimb(b, k)
                     THEN 1 ELSE 0
    IN BnTrim([i \in 1..Len(a) |-> (BnLimb(a, i) - BnLimb(b, i) - borrow(i) + Limb) % Limb])

\* 1, 0, -1 as a > b, a = b, a < b
BnCmp(a, b) ==
    LET n == IF Len(a) > Len(b) THEN Len(a) ELSE Len(b)
        diff == {i \in 1..n : BnLimb(a, i) # BnLimb(b, i)}
        top == CHOOSE i \in diff : \A j \in diff : j <= i
    IN IF diff = {} THEN 0
       ELSE IF BnLimb(a, top) > BnLimb(b, top) THEN 1 ELSE -1

\* the number of bits of a
BnBits(a) ==
    IF a = <<>> THEN 0
    ELSE (LimbBits * (Len(a) - 1))
         + (CHOOSE n \in 1..LimbBits : 2^(n - 1) <= a[Len(a)] /\ a[Len(a)] < 2^n)

\* bit i of a, the lowest bit being bit 1
BnBitAt(a, i) == (BnLimb(a, ((i - 1) \div LimbBits) + 1) \div (2^((i - 1) % LimbBits))) % 2

\* a * 2^k
BnShl(a, k) ==
    LET w == k \div LimbBits
        b == k % LimbBits
    IN BnTrim([i \in 1..(Len(a) + w + 1) |->
                  ((BnLimb(a, i - w) % 2^(LimbBits - b)) * 2^b) + (BnLimb(a, i - w - 1) \div 2^(LimbBits - b))])

\* a \div 2^k
BnShr(a, k) ==
    LET w == k \div LimbBits
        b == k % LimbBits
    IN BnTrim([i \in 1..Len(a) |->
                  (BnLimb(a, i + w) \div 2^b) + ((BnLimb(a, i + w + 1) % 2^b) * 2^(LimbBits - b))])

RECURSIVE BnDivRem(_, _)
\* quotient and remainder of a by a divisor d below Limb
BnDivRem(a, d) ==
    IF a = <<>> THEN [q |-> <<>>, r |-> 0]
    ELSE LET hi == BnDivRem(Tail(a), d)
             t == (Limb * hi.r) + Head(a)
         IN [q |-> BnTrim(<<t \div d>> \o hi.q), r |-> t % d]

FlZero == <<0, 0, <<>>>>

\* the float nearest to sign * (m + f) * 2^e, ties to even, where f is a
\* fraction below 1 that is above 0 exactly when sticky holds
FlRound(sign, m, e, sticky) ==
    LET d == BnBits(m) - MantissaBits
        kept == BnShr(m, d)
        up == /\ BnBitAt(m, d) = 1
              /\ \/ sticky
                 \/ \E i \in 1..(d - 1) : BnBitAt(m, i) = 1
                 \/ BnBitAt(kept, 1) = 1
        r == IF up THEN BnAdd(kept, <<1>>) ELSE kept
    IN IF m = <<>> THEN FlZero
       ELSE IF d <= 0 THEN <<sign, e + d, BnShl(m, 0 - d)>>
       ELSE IF BnBits(r) > MantissaBits THEN <<sign, e + d + 1, BnShr(r, 1)>>
       ELSE <<sign, e + d, r>>

\* x + y
FlAdd(x, y) ==
    IF x[1] = 0 THEN y
    ELSE IF y[1] = 0 THEN x
    ELSE LET e == IF x[2] < y[2] THEN x[2] ELSE y[2]
             mx == BnShl(x[3], x[2] - e)
             my == BnShl(y[3], y[2] - e)
             c == BnCmp(mx, my)
         IN IF x[1] = y[1] THEN FlRound(x[1], BnAdd(mx, my), e, FALSE)
            ELSE IF c = 0 THEN FlZero
            ELSE IF c > 0 THEN FlRound(x[1], BnSub(mx, my), e, FALSE)
            ELSE FlRound(y[1], BnSub(my, mx), e, FALSE)

\* x - y
FlSub(x, y) == FlAdd(x, <<0 - y[1], y[2], y[3]>>)

\* x > y: the difference of two floats of the model is 0.0 only when they are equal
FlGt(x, y) == FlSub(x, y)[1] = 1

\* the value a number_input returns for an amount typed with two decimals,
\* given in hundredths: the float nearest to cents / 100
FromCents(cents) ==
    LET qr == BnDivRem(BnShl(BnFromNat(cents), 60), 100)
    IN FlRound(1, qr.q, 0 - 60, qr.r # 0)

(***************************************************************************)
(* Fee records: management/dashboard.py manage_fee_collection and          *)
(* parents/dashboard.py manage_fee_payment                                 *)
(***************************************************************************)
MaxPayments == 3      \* entries a payment history is followed up to

\* amounts typed into the number inputs, in hundredths
DueInputs == {9486}
AdminPayInputs == {0, 2571}
ParentPayInputs == {0, 2571, 10000}

\* the fee record the admin page creates for a student that has none
NewFeeRecord(student_id) ==
    [student_id |-> student_id, amount_due |-> FlZero, amount_paid |-> FlZero,
     payment_history |-> <<>>]

\* if str(student_id_for_fee_record) not in fee_data: fee_data[...] = {...}
WithFeeRecord(fee_data, student_id) ==
    IF Has(fee_data, student_id) THEN fee_data
    ELSE Put(fee_data, student_id, NewFeeRecord(student_id))

RECURSIVE SumOfAmounts(_)
\* sum(p['amount'] for p in payment_history), added up from the first entry on
SumOfAmounts(payment_history) ==
    IF payment_history = <<>> THEN FlZero
    ELSE FlAdd(SumOfAmounts(SubSeq(payment_history, 1, Len(payment_history) - 1)),
               payment_history[Len(payment_history)].amount)

\* a recording that adds the payment to amount_paid twice
RecordedTwice(record, amount, by) ==
    [record EXCEPT !.amount_paid = FlAdd(FlAdd(@, amount), amount),
                   !.payment_history = Append(@, [amount |-> amount, by |-> by])]

\* record['amount_paid'] += payment_amount; record['payment_history'].append({...})
Recorded(record, amount, by) ==
    [record EXCEPT !.amount_paid = FlAdd(@, amount),
                   !.payment_history = Append(@, [amount |-> amount, by |-> by])]

\* manage_fee_collection, "Record Fee Payment" tab drawn for the selected
\* student: a student without fee record gets one in the session's copy
AdminFeePage(a, student_id) ==
    LET fee_data == Val(admin[a].fee_data)
    IN
    /\ AdminDashboard(a)
    /\ student_id \in StudentIds(student_data(a))
    /\ admin' = [admin EXCEPT ![a].fee_data = Some(WithFeeRecord(fee_data, student_id))]
    /\ Ran("", IF Has(fee_data, student_id) THEN "" ELSE "fee record created in the session")
    /\ UNCHANGED <<files, feeFile, timetableFile, teacher, parent, nextId, authenticated>>
    /\ UNCHANGED <<default_value, codec>>

\* manage_fee_collection, "Record Payment" pressed: the run draws the tab,
\* then sets the amount due, adds the payment and saves the session's copy
AdminRecordPayment(a, student_id, new_amount_due, payment_amount) ==
    LET fee_data == WithFeeRecord(Val(admin[a].fee_data), student_id)
        current_fee_record == Get(fee_data, student_id)
        updated == Recorded([current_fee_record EXCEPT !.amount_due = FromCents(new_amount_due)],
                            FromCents(payment_amount), "admin")
        fee_data2 == Put(fee_data, student_id, updated)
    IN
    /\ AdminDashboard(a)
    /\ student_id \in StudentIds(student_data(a))
    /\ Len(current_fee_record.payment_history) < MaxPayments
    /\ admin' = [admin EXCEPT ![a].fee_data = Some(fee_data2)]
    /\ feeFile' = fee_data2
    /\ exists' = exists \cup {"fee"}
    /\ Ran("", "payment recorded")
    /\ UNCHANGED <<teachersFile, studentsFile, leaveFile, attendanceFile, assignmentsFile>>
    /\ UNCHANGED <<timetableFile, teacher, parent, nextId, authenticated>>
    /\ UNCHANGED <<default_value, codec>>

\* elif payment_amount > amount_due - amount_paid: payment_amount = amount_due - amount_paid
Adjusted(payment_amount, student_fee_record) ==
    LET outstanding == FlSub(student_fee_record.amount_due, student_fee_record.amount_paid)
    IN IF FlGt(payment_amount, FlZero) /\ FlGt(payment_amount, outstanding)
       THEN outstanding ELSE payment_amount

\* manage_fee_payment, "Submit Payment" pressed
ParentPay(p, payment_amount) ==
    LET student_info == Val(parent[p].logged_in_student)
        student_fee_record == Get(feeFile, student_info.id)
        amount == Adjusted(FromCents(payment_amount), student_fee_record)
    IN
    /\ ParentDashboard(p)
    /\ Has(feeFile, student_info.id)
    /\ IF FlGt(amount, FlZero)
       THEN /\ Len(student_fee_record.payment_history) < MaxPayments
            /\ feeFile' = Put(feeFile, student_info.id, Recorded(student_fee_record, amount, "parent"))
            /\ exists' = exists \cup {"fee"}
            /\ Ran("", IF amount = FromCents(payment_amount) THEN "payment recorded"
                       ELSE "payment adjusted and recorded")
       ELSE /\ UNCHANGED <<feeFile, exists>>
            /\ Ran(IF FlGt(FromCents(payment_amount), FlZero) THEN ""
                   ELSE "Please enter a valid amount to pay.", "No payment was made.")
    /\ UNCHANGED <<teachersFile, studentsFile, leaveFile, attendanceFile, assignmentsFile>>
    /\ UNCHANGED <<timetableFile, admin, teacher, parent, nextId, authenticated>>
    /\ UNCHANGED <<default_value, codec>>

(***************************************************************************)
(* C26: one admin session, no other writer                                 *)
(***************************************************************************)
NextSingleAdmin ==
    \/ \E a \in {"a1"} : AdminModuleInit(a)
    \/ \E a \in {"a1"} : RegisterAdmin(a, "admin", "pw1", "pw1")
    \/ \E a \in {"a1"} : AdminLogin(a, "admin", "pw1")
    \/ \E a \in {"a1"} : AdminLogout(a)
    \/ \E a \in {"a1"}, n \in NameInputs : AdminAddStudent(a, AdmNo(9001), n, "Grade 1A")
    \/ \E a \in {"a1"} : AdminDeleteStudent(a, AdmNo(9001))
    \/ \E a \in {"a1"}, sid \in 1..2 : AdminFeePage(a, sid)
    \/ \E a \in {"a1"}, due \in DueInputs, pay \in AdminPayInputs :
          AdminRecordPayment(a, 1, due, pay)

SpecSingleAdmin == Init /\ [][NextSingleAdmin]_vars

\* C26: after every run of the admin session that ended without an
\* exception, each collection the session holds a copy of has a file content
\* equal to that copy.
AdminCacheIsPersisted ==
    \A a \in AdminSessions :
       lastOp.msg \notin {"NameError", "ValueError"} =>
          /\ IsSet(admin[a].teachers) => Val(admin[a].teachers) = teachersFile
          /\ IsSet(admin[a].students) => Val(admin[a].students) = studentsFile
          /\ IsSet(admin[a].leave_data) => Val(admin[a].leave_data) = leaveFile
          /\ IsSet(admin[a].fee_data) => Val(admin[a].fee_data) = feeFile

(***************************************************************************)
(* C27: class partitions of the persisted Student collection               *)
(***************************************************************************)
\* C27: every class partition of the persisted Student collection holds at
\* least one student.
NoEmptyClassPartition ==
    \A i \in 1..Len(studentsFile) : studentsFile[i].v # <<>>

(***************************************************************************)
(* Timetable: teachers/dashboard.py and teacher_dashboard.py, Edit         *)
(* Timetable form                                                          *)
(***************************************************************************)
DayInputs == {"Monday"}
PeriodInputs == {1, 2}
TimetableClasses == {"Nursery", "LKG"}
TimetableActions == {"Add/Update", "Delete"}

\* e.get('day') == day and e.get('period') == period
SameSlot(e, entry) == e.day = entry.day /\ e.period = entry.period

\* e.get('day') == day and e.get('period') == period and e.get('class_name') == class_name
SameSlotAndClass(e, entry) == SameSlot(e, entry) /\ e.class_name = entry.class_name

\* an Add/Update that removes only the entry of the same class
UpdatedOfClassOnly(timetable_data, entry) ==
    Append(SelectSeq(timetable_data, LAMBDA e : ~SameSlotAndClass(e, entry)), entry)

\* Add/Update: the entries of other slots, then the new entry
Updated(timetable_data, entry) ==
    Append(SelectSeq(timetable_data, LAMBDA e : ~SameSlot(e, entry)), entry)

\* Delete: the entries that differ in day, period or class
Deleted(timetable_data, entry) ==
    SelectSeq(timetable_data, LAMBDA e : ~SameSlotAndClass(e, entry))

\* the timetable list the form leaves
Submitted(timetable_data, entry, action) ==
    IF action = "Add/Update" THEN Updated(timetable_data, entry) ELSE Deleted(timetable_data, entry)

\* teacher_module, Timetable: "Submit" pressed in the Edit Timetable form
TeacherTimetableSubmit(t, day, period, class_name, action) ==
    LET tid == Val(teacher[t].teacher_id)
        entry == [day |-> day, period |-> period, class_name |-> class_name]
        timetable_data == GetOr(load_data("timetable", timetableFile), tid, <<>>)
        all_data == Put(load_data("timetable", timetableFile), tid,
                        Submitted(timetable_data, entry, action))
    IN
    /\ TeacherDashboard(t)
    /\ timetableFile' = all_data
    /\ exists' = exists \cup {"timetable"}
    /\ default_value' = IF "timetable" \in exists THEN default_value ELSE all_data
    /\ Ran("", IF action = "Add/Update" THEN "Timetable entry updated!"
               ELSE "Timetable entry deleted!")
    /\ UNCHANGED <<teachersFile, studentsFile, leaveFile, attendanceFile, assignmentsFile>>
    /\ UNCHANGED <<feeFile, admin, teacher, parent, nextId, authenticated, codec>>

\* teacher_dashboard.py show(), Timetable: "Submit" pressed; its load_data
\* returns a new {} for a missing file
StandaloneTimetableSubmit(s, day, period, class_name, action) ==
    LET tid == Val(teacher[s].teacher_id)
        entry == [day |-> day, period |-> period, class_name |-> class_name]
        timetable_data == GetOr(timetableFile, tid, <<>>)
    IN
    /\ StandaloneDashboard(s)
    /\ timetableFile' = Put(timetableFile, tid, Submitted(timetable_data, entry, action))
    /\ exists' = exists \cup {"timetable"}
    /\ Ran("", IF action = "Add/Update" THEN "Timetable entry updated!"
               ELSE "Timetable entry deleted!")
    /\ UNCHANGED <<teachersFile, studentsFile, leaveFile, attendanceFile, assignmentsFile>>
    /\ UNCHANGED <<feeFile, admin, teacher, parent, nextId, authenticated>>
    /\ UNCHANGED <<default_value, codec>>

NextTimetable ==
    \/ \E s \in StandaloneSessions : StandaloneRegister(s, "admin", "pw1")
    \/ \E s \in StandaloneSessions : StandaloneLogin(s, "admin", "pw1")
    \/ \E t \in {"t1"} : TeacherModuleStart(t)
    \/ \E t \in {"t1"}, d \in DayInputs, p \in PeriodInputs, c \in TimetableClasses,
          act \in TimetableActions : TeacherTimetableSubmit(t, d, p, c, act)
    \/ \E s \in StandaloneSessions, d \in DayInputs, p \in PeriodInputs, c \in TimetableClasses,
          act \in TimetableActions : StandaloneTimetableSubmit(s, d, p, c, act)

SpecTimetable == Init /\ [][NextTimetable]_vars

\* a teacher's timetable has no two entries of one day and period
OneEntryPerSlot ==
    \A n \in 1..Len(timetableFile) :
       \A i, j \in 1..Len(timetableFile[n].v) :
          i # j => ~SameSlot(timetableFile[n].v[i], timetableFile[n].v[j])

\* what a Submit step of a teacher does to the timetable of that teacher
SubmitEffect(tid, d, p, c, act) ==
    LET before == GetOr(timetableFile, tid, <<>>)
        after == GetOr(timetableFile', tid, <<>>)
        entry == [day |-> d, period |-> p, class_name |-> c]
        others == {i \in 1..Len(before) : ~SameSlot(before[i], entry)}
    IN IF act = "Add/Update"
       THEN /\ after[Len(after)] = entry
            /\ \A i \in 1..(Len(after) - 1) : ~SameSlot(after[i], entry)
            /\ Len(after) = Cardinality(others) + 1
            /\ \A i \in others : \E j \in 1..(Len(after) - 1) : after[j] = before[i]
       ELSE IF \E i \in 1..Len(before) : before[i] = entry
       THEN /\ Len(after) = Len(before) - 1
            /\ \A i \in 1..Len(after) : after[i] # entry
       ELSE after = before

\* C28: a teacher's timetable holds at most one entry per (day, period);
\* Add/Update removes every entry of that day and period, whatever its
\* class, and appends the new one, Delete removes an entry only when day,
\* period and class all match, and the timetables of other teachers stay.
TimetableOneEntryPerSlot ==
    /\ []OneEntryPerSlot
    /\ [][\A d \in DayInputs, p \in PeriodInputs, c \in TimetableClasses, act \in TimetableActions :
            /\ \A t \in TeacherSessions :
                  TeacherTimetableSubmit(t, d, p, c, act) =>
                     /\ SubmitEffect(Val(teacher[t].teacher_id), d, p, c, act)
                     /\ \A o \in Keys(timetableFile) \ {Val(teacher[t].teacher_id)} :
                           GetOr(timetableFile', o, <<>>) = Get(timetableFile, o)
            /\ \A s \in StandaloneSessions :
                  StandaloneTimetableSubmit(s, d, p, c, act) =>
                     /\ SubmitEffect(Val(teacher[s].teacher_id), d, p, c, act)
                     /\ \A o \in Keys(timetableFile) \ {Val(teacher[s].teacher_id)} :
                           GetOr(timetableFile', o, <<>>) = Get(timetableFile, o)]_vars

\* the slot Monday 1 went from Nursery to LKG by an Add/Update, beside an
\* entry of period 2, while another teacher has a timetable of its own
C28Witness ==
    /\ lastOp.note = "Timetable entry updated!"
    /\ Len(timetableFile) = 2
    /\ \E n \in 1..2 :
          /\ timetableFile[n].v = <<[day |-> "Monday", period |-> 2, class_name |-> "Nursery"],
                                    [day |-> "Monday", period |-> 1, class_name |-> "LKG"]>>
          /\ timetableFile[3 - n].v # <<>>

(***************************************************************************)
(* Specification of the fee records                                        *)
(***************************************************************************)
NextFees ==
    \/ \E a \in {"a1"} : AdminModuleInit(a)
    \/ \E a \in {"a1"} : RegisterAdmin(a, "admin", "pw1", "pw1")
    \/ \E a \in {"a1"} : AdminLogin(a, "admin", "pw1")
    \/ \E a \in {"a1"} : AdminFeePage(a, 1)
    \/ \E a \in {"a1"}, due \in DueInputs, pay \in AdminPayInputs :
          AdminRecordPayment(a, 1, due, pay)
    \/ \E p \in {"p1"} : RegisterParent(p, AdmNo(1001), "Rao", "pw1", "pw1")
    \/ \E p \in {"p1"} : ParentLogin(p, AdmNo(1001), "pw1")
    \/ \E p \in {"p1"}, pay \in ParentPayInputs : ParentPay(p, pay)

SpecFees == Init /\ [][NextFees]_vars

\* C29: the amount_paid of every persisted fee record is the sum of the
\* amounts of its payment_history, added up in the order of the entries,
\* whether the admin page or a parent recorded them.
\* the same holds of the records in an admin session's copy.
SumsAgree(fee_data) ==
    \A n \in 1..Len(fee_data) :
       fee_data[n].v.amount_paid = SumOfAmounts(fee_data[n].v.payment_history)

AmountPaidIsSumOfHistory ==
    /\ SumsAgree(feeFile)
    /\ \A a \in AdminSessions :
          IsSet(admin[a].fee_data) => SumsAgree(Val(admin[a].fee_data))

\* a fee record with a payment recorded by the admin and one by the parent
C29Witness ==
    \E n \in 1..Len(feeFile) :
       LET h == feeFile[n].v.payment_history
       IN /\ Len(h) >= 2
          /\ \E i, j \in 1..Len(h) : h[i].by = "admin" /\ h[j].by = "parent"
          /\ \A i \in 1..Len(h) : h[i].amount = FromCents(2571)
          /\ FlGt(feeFile[n].v.amount_paid, FromCents(2571))


\* the payment of a parent was added to the fee record of student_id
ParentEntryAdded(student_id) ==
    /\ Has(feeFile, student_id) /\ Has(feeFile', student_id)
    /\ LET before == Get(feeFile, student_id).payment_history
           after == Get(feeFile', student_id).payment_history
       IN /\ Len(after) = Len(before) + 1
          /\ SubSeq(after, 1, Len(before)) = before
          /\ after[Len(after)].by = "parent"

\* C30: a parent payment leaves amount_paid at most amount_due, and a run
\* that ends with "No payment was made." leaves the fee records unchanged.
ParentPaymentWithinDue ==
    [][/\ \A student_id \in Keys(feeFile) :
             ParentEntryAdded(student_id) =>
                ~FlGt(Get(feeFile', student_id).amount_paid,
                      Get(feeFile', student_id).amount_due)
       /\ lastOp'.note = "No payment was made." => feeFile' = feeFile]_vars

====
